---------------------------- MODULE Spec2Model ----------------------------
(***************************************************************************)
(* A model of the semantic analyzer of libutap (src/typechecker.cpp): the  *)
(* annotator, the declared-type checker, the initialiser checker, the      *)
(* invariant/rate decomposer and the parameter compatibility check.        *)
(*                                                                         *)
(* An expression is a record [kind, type, sub, sym, value]; sub holds the  *)
(* children, so the code's expr[i] is sub[i + 1] (operator Arg).  A type   *)
(* is a record [base, pre, lo, hi, sub, size, id, names]: pre is the set   *)
(* of prefixes, lo/hi the range expressions, sub the element or return     *)
(* type, size the array size type, id the identity of the frame of a       *)
(* declared record or of a scalar set, names the field names of the frame  *)
(* of a list.  A position is the path of a node from the root of the       *)
(* expression handed to the analyzer.                                      *)
(***************************************************************************)
EXTENDS Integers, Sequences, FiniteSets, TLC

VARIABLES
    task,       \* the element of the system being visited, with its input
    pc,         \* "ready": not visited yet; "done": visited
    out,        \* what the visit left behind (annotated tree, rewritten fields)
    errors,     \* the error sink: sequence of [pos, msg]
    valuation,  \* system->getConstantValuation(): symbol name -> expression
    symbols     \* the declared symbols of the system: symbol name -> type

vars == <<task, pc, out, errors, valuation, symbols>>

---------------------------------------------------------------------------
(* Bounds of the model. *)

\* Literal integers of the inputs are 0..MaxVal.
MaxVal == 2

---------------------------------------------------------------------------
(* Types (utap/symbols.h, class type_t). *)

Nil == [base |-> "NIL"]

NoRange == [kind |-> "EMPTY", sym |-> "", value |-> 0]

RConst(n) == [kind |-> "CONSTANT", sym |-> "", value |-> n]

RIdent(s) == [kind |-> "IDENTIFIER", sym |-> s, value |-> 0]

Prim(b) ==
    [base |-> b, pre |-> {}, lo |-> NoRange, hi |-> NoRange,
     sub |-> Nil, size |-> Nil, id |-> 0, names |-> <<>>]

UNKNOWN == Prim("UNKNOWN")

createInteger(l, u) == [Prim("INT") EXCEPT !.lo = l, !.hi = u]

createScalarSet(l, u, ident) == [Prim("SCALAR") EXCEPT !.lo = l, !.hi = u, !.id = ident]

createRecord(frameId) == [Prim("RECORD") EXCEPT !.id = frameId]

\* The type the builder gives a list { ... }: a record over a frame of its
\* own, with one symbol per element, named or not ("").
createListType(fieldNames) == [Prim("RECORD") EXCEPT !.names = fieldNames]

\* frame_t::operator== on the frames of two types: the same frame object.
\* The frame of a list is the frame of no other type.
sameFrame(t1, t2) == t1.id = t2.id /\ t1.id # 0

createArray(elem, sz) == [Prim("ARRAY") EXCEPT !.sub = elem, !.size = sz]

createFunction(frameId, ret) == [Prim("FUNCTION") EXCEPT !.sub = ret, !.id = frameId]

setPrefix(t, p) == [t EXCEPT !.pre = @ \cup {p}]

hasPrefix(t, p) == p \in t.pre

typeIsInteger(t) == t.base = "INT"

typeIsValue(t) == t.base = "INT" \/ t.base = "BOOL"

typeIsScalar(t) == t.base = "SCALAR" \/ typeIsInteger(t)

typeIsClock(t) == t.base = "CLOCK"

typeIsRecord(t) == t.base = "RECORD"

typeIsDiff(t) == t.base = "DIFF"

typeIsVoid(t) == t.base = "VOID_TYPE"

typeIsInvariant(t) == t.base = "INVARIANT" \/ typeIsValue(t)

typeIsGuard(t) == t.base = "GUARD" \/ typeIsInvariant(t)

typeIsConstraint(t) == t.base = "CONSTRAINT" \/ typeIsGuard(t)

---------------------------------------------------------------------------
(* Expressions. *)

EmptyExpr == [kind |-> "EMPTY", type |-> UNKNOWN, sub |-> <<>>, sym |-> "", value |-> 0]

Node(k, args) == [kind |-> k, type |-> UNKNOWN, sub |-> args, sym |-> "", value |-> 0]

Arg(e, i) == e.sub[i + 1]

getSize(e) == Len(e.sub)

\* The static helpers at the head of typechecker.cpp.
isCost(e) == e.type.base = "COST"

isVoid(e) == typeIsVoid(e.type)

isScalar(e) == typeIsScalar(e.type)

isInteger(e) == typeIsInteger(e.type)

isValue(e) == typeIsValue(e.type)

isClock(e) == typeIsClock(e.type)

isRecord(e) == typeIsRecord(e.type)

isDiff(e) == typeIsDiff(e.type)

isInvariant(e) == typeIsInvariant(e.type)

isInvariantWR(e) == isInvariant(e) \/ e.type = Prim("INVARIANT_WR")

isGuard(e) == typeIsGuard(e.type)

isConstraint(e) == typeIsConstraint(e.type)

isRate(e) == e.type = Prim("RATE")

---------------------------------------------------------------------------
(* The declarations of the modelled system: symbols and frames, as the     *)
(* builder hands them to the analyzer.                                     *)

IntRange == createInteger(RConst(0), RConst(MaxVal))

\* Frame 1: struct { int a; int b; }.  Frame 2: the parameters of f(int[0,MaxVal] p1).
\* Frame 3: struct { int a; int b; } declared a second time.
\* Frame 4: struct { int[0,p] a; int b[p + 1]; }, its ranges over the parameter p.
\* Frames 5 to 7: the parameters of fc(chan &p1), fu(urgent chan &p1) and
\* fb(broadcast chan &p1).  Frame 8: the parameters of fr(int[MaxVal+1,MaxVal+1] p1).
Frame(ident) ==
    CASE ident = 1 -> << [name |-> "a", type |-> Prim("INT")],
                         [name |-> "b", type |-> Prim("INT")] >>
      [] ident = 2 -> << [name |-> "p1", type |-> IntRange] >>
      [] ident = 3 -> << [name |-> "a", type |-> Prim("INT")],
                         [name |-> "b", type |-> Prim("INT")] >>
      [] ident = 4 -> << [name |-> "a", type |-> createInteger(RConst(0), RIdent("p"))],
                         [name |-> "b", type |-> createArray(Prim("INT"),
                                         createInteger(RConst(0), RIdent("p")))] >>
      [] ident = 5 -> << [name |-> "p1", type |-> setPrefix(Prim("CHANNEL"), "REFERENCE")] >>
      [] ident = 6 -> << [name |-> "p1", type |->
                             setPrefix(setPrefix(Prim("CHANNEL"), "URGENT"), "REFERENCE")] >>
      [] ident = 7 -> << [name |-> "p1", type |->
                             setPrefix(setPrefix(Prim("CHANNEL"), "BROADCAST"), "REFERENCE")] >>
      [] ident = 8 -> << [name |-> "p1", type |->
                             createInteger(RConst(MaxVal + 1), RConst(MaxVal + 1))] >>
      [] OTHER -> << >>

declaredType(s) ==
    CASE s = "i"    -> IntRange
      [] s = "j"    -> createInteger(RConst(0), RIdent("n"))
      [] s = "n"    -> setPrefix(Prim("INT"), "CONSTANT")
      [] s = "p"    -> setPrefix(Prim("INT"), "CONSTANT")
      [] s = "q"    -> createInteger(RConst(0), RIdent("p"))
      [] s = "e"    -> createInteger(RConst(1), RConst(0))
      [] s = "b"    -> Prim("BOOL")
      [] s = "c"    -> Prim("CLOCK")
      [] s = "cost" -> Prim("COST")
      [] s = "x"    -> createScalarSet(RConst(0), RConst(MaxVal), 1)
      [] s = "y"    -> createScalarSet(RConst(0), RConst(MaxVal), 2)
      [] s = "r"    -> createRecord(1)
      [] s = "a"    -> createArray(Prim("INT"), IntRange)
      [] s = "an"   -> createArray(Prim("INT"), createInteger(RConst(0), RIdent("n")))
      [] s = "sa"   -> createArray(Prim("INT"), createScalarSet(RConst(0), RConst(MaxVal), 1))
      [] s = "ch"   -> Prim("CHANNEL")
      [] s = "uch"  -> setPrefix(Prim("CHANNEL"), "URGENT")
      [] s = "bch"  -> setPrefix(Prim("CHANNEL"), "BROADCAST")
      [] s = "ubch" -> setPrefix(setPrefix(Prim("CHANNEL"), "URGENT"), "BROADCAST")
      [] s = "cha"  -> createArray(Prim("CHANNEL"), IntRange)
      [] s = "ucha" -> createArray(setPrefix(Prim("CHANNEL"), "URGENT"), IntRange)
      [] s = "bcha" -> createArray(setPrefix(Prim("CHANNEL"), "BROADCAST"), IntRange)
      [] s = "f"    -> createFunction(2, Prim("INT"))
      [] s = "fc"   -> createFunction(5, Prim("VOID_TYPE"))
      [] s = "fu"   -> createFunction(6, Prim("VOID_TYPE"))
      [] s = "fb"   -> createFunction(7, Prim("VOID_TYPE"))
      [] s = "fr"   -> createFunction(8, Prim("INT"))
      [] OTHER      -> UNKNOWN

\* symbol_t::getType().
SymType(s) == IF s \in DOMAIN symbols THEN symbols[s] ELSE UNKNOWN

\* p is a template parameter (const int p): constant, but without a value
\* in the constant valuation.  Every other symbol is a variable.
TemplateParameters == {"p"}

Variables == {"i", "j", "n", "q", "e", "b", "c", "cost", "x", "y", "r", "a", "an", "sa",
              "ch", "uch", "bch", "ubch", "cha", "ucha", "bcha"}

\* PersistentVariables::visitVariable and ::visitTemplateAfter.
persistentVariables ==
    LET persistent(s, type) ==
            IF s \in Variables
            THEN ~hasPrefix(type, "CONSTANT")
            ELSE hasPrefix(type, "REFERENCE") \/ ~hasPrefix(type, "CONSTANT")
    IN  {s \in Variables \cup TemplateParameters : persistent(s, SymType(s))}

Ident(s) == [kind |-> "IDENTIFIER", type |-> SymType(s), sub |-> <<>>, sym |-> s, value |-> 0]

Const(v) == [kind |-> "CONSTANT", type |-> Prim("INT"), sub |-> <<>>, sym |-> "", value |-> v]

\* A range expression of a type, as an expression.
AsExpr(re) ==
    CASE re.kind = "CONSTANT"   -> Const(re.value)
      [] re.kind = "IDENTIFIER" -> Ident(re.sym)
      [] OTHER                  -> EmptyExpr

AssignKinds ==
    {"ASSIGN", "ASSPLUS", "ASSMINUS", "ASSDIV", "ASSMOD", "ASSMULT", "ASSAND",
     "ASSOR", "ASSXOR", "ASSLSHIFT", "ASSRSHIFT"}

CompoundKinds == AssignKinds \ {"ASSIGN", "ASSPLUS"}

IncDecKinds == {"POSTINCREMENT", "PREINCREMENT", "POSTDECREMENT", "PREDECREMENT"}

ArithKinds ==
    {"PLUS", "MINUS", "MULT", "DIV", "MOD", "BIT_AND", "BIT_OR", "BIT_XOR",
     "BIT_LSHIFT", "BIT_RSHIFT", "MIN", "MAX"}

LogicKinds == {"AND", "OR", "LT", "LE", "GE", "GT"}

\* expression_t::getSymbol(): the symbol an expression refers to ("" for none).
RECURSIVE getSymbol(_)
getSymbol(e) ==
    CASE e.kind = "IDENTIFIER" -> e.sym
      [] e.kind \in {"DOT", "ARRAY"} \cup AssignKinds \cup IncDecKinds -> getSymbol(Arg(e, 0))
      [] e.kind = "INLINEIF" -> getSymbol(Arg(e, 1))
      [] e.kind = "COMMA" -> getSymbol(Arg(e, 1))
      [] OTHER -> ""

\* expression_t::dependsOn(set): some identifier of e is in the set.
RECURSIVE dependsOn(_, _)
dependsOn(e, P) ==
    \/ e.kind = "IDENTIFIER" /\ e.sym \in P
    \/ \E k \in 1..Len(e.sub) : dependsOn(e.sub[k], P)

\* expression_t::changesVariable(set): e holds an assignment, increment or
\* decrement whose target is in the set.
RECURSIVE changesVariable(_, _)
changesVariable(e, P) ==
    \/ e.kind \in AssignKinds \cup IncDecKinds /\ getSymbol(Arg(e, 0)) \in P
    \/ \E k \in 1..Len(e.sub) : changesVariable(e.sub[k], P)

isSideEffectFree(e) == ~changesVariable(e, persistentVariables)

---------------------------------------------------------------------------
(* The interpreter (a service of the library) and range_t. *)

NotComputable == [ok |-> FALSE, v |-> 0]

Value(n) == [ok |-> TRUE, v |-> n]

RECURSIVE evaluate(_, _)
evaluate(e, val) ==
    CASE e.kind = "CONSTANT" -> Value(e.value)
      [] e.kind = "IDENTIFIER" ->
            IF e.sym \in DOMAIN val THEN evaluate(val[e.sym], val) ELSE NotComputable
      [] e.kind \in {"PLUS", "MINUS", "MULT"} ->
            LET l == evaluate(Arg(e, 0), val)
                r == evaluate(Arg(e, 1), val)
            IN  IF ~l.ok \/ ~r.ok THEN NotComputable
                ELSE CASE e.kind = "PLUS"  -> Value(l.v + r.v)
                       [] e.kind = "MINUS" -> Value(l.v - r.v)
                       [] OTHER            -> Value(l.v * r.v)
      [] e.kind = "UNARY_MINUS" ->
            LET l == evaluate(Arg(e, 0), val)
            IN  IF l.ok THEN Value(0 - l.v) ELSE NotComputable
      [] OTHER -> NotComputable

\* Interpreter::evaluate(pair<expression_t, expression_t>): a range_t.
evaluateRange(t, val) ==
    LET range(l, u) == [ok |-> l.ok /\ u.ok, lower |-> l.v, upper |-> u.v]
    IN  range(evaluate(AsExpr(t.lo), val), evaluate(AsExpr(t.hi), val))

rangeIsEmpty(r) == r.lower > r.upper

rangeContains(r, q) == rangeIsEmpty(q) \/ (r.lower <= q.lower /\ q.upper <= r.upper)

rangeContainsInt(r, n) == r.lower <= n /\ n <= r.upper

rangeIntersect(r, q) ==
    [lower |-> IF r.lower > q.lower THEN r.lower ELSE q.lower,
     upper |-> IF r.upper < q.upper THEN r.upper ELSE q.upper]

rangeEqual(r, q) ==
    \/ rangeIsEmpty(r) /\ rangeIsEmpty(q)
    \/ r.lower = q.lower /\ r.upper = q.upper

---------------------------------------------------------------------------
(* Results of the checking functions.  A function that reports through     *)
(* handleError returns the errors it reported, in order.  An error records *)
(* whether it was raised in a handler of InterpreterException, that is,    *)
(* because an expression could not be evaluated.                           *)

Err(p, m) == [pos |-> p, msg |-> m, uncomputed |-> FALSE]

Uncomputed(p, m) == [pos |-> p, msg |-> m, uncomputed |-> TRUE]

Res(ok, e, errs) == [ok |-> ok, e |-> e, errs |-> errs]

Fail(e, errs, p, m) == Res(FALSE, e, Append(errs, Err(p, m)))

Typed(e, t, errs) == Res(TRUE, [e EXCEPT !.type = t], errs)

\* Positions of the parts of a type below position p.
LoPos(p) == Append(p, -1)

HiPos(p) == Append(p, -2)

SizePos(p) == Append(p, -3)

SubPos(p) == Append(p, -4)

RECURSIVE SeqConcat(_)
SeqConcat(ss) == IF ss = <<>> THEN <<>> ELSE Head(ss) \o SeqConcat(Tail(ss))

---------------------------------------------------------------------------
(* Predicates on annotated expressions. *)

StripArray(t) ==
    LET RECURSIVE strip(_)
        strip(u) == IF u.base = "ARRAY" THEN strip(u.sub) ELSE u
    IN  strip(t)

\* Every identifier of a variable, projection and updating node taken as an lhs.
isLHSValueAnyUpdate(expr) ==
    \/ expr.kind = "IDENTIFIER" /\ ~hasPrefix(SymType(expr.sym), "CONSTANT")
    \/ expr.kind \in {"DOT", "ARRAY"} \cup AssignKinds \cup IncDecKinds

RECURSIVE isLHSValue(_)
isLHSValue(expr) ==
    CASE expr.kind = "IDENTIFIER" -> ~hasPrefix(SymType(expr.sym), "CONSTANT")
      [] expr.kind \in {"DOT", "ARRAY"} -> isLHSValue(Arg(expr, 0))
      [] expr.kind \in {"PREINCREMENT", "PREDECREMENT"} \cup AssignKinds ->
            isLHSValue(Arg(expr, 0))
      [] expr.kind = "INLINEIF" ->
            IF ~isLHSValue(Arg(expr, 1)) \/ ~isLHSValue(Arg(expr, 2)) THEN FALSE
            ELSE LET sameRange(t, f) ==
                         IF t.base = "INT" THEN t.lo = f.lo /\ t.hi = f.hi ELSE TRUE
                 IN  sameRange(StripArray(SymType(getSymbol(Arg(expr, 1)))),
                               StripArray(SymType(getSymbol(Arg(expr, 2)))))
      [] expr.kind = "COMMA" -> isLHSValue(Arg(expr, 1))
      [] OTHER -> FALSE

\* A reference that is unique whatever its kind and its index.
isUniqueReferenceLoose(expr) ==
    expr.kind \in {"IDENTIFIER", "DOT", "ARRAY", "INLINEIF", "COMMA"}

RECURSIVE isUniqueReference(_)
isUniqueReference(expr) ==
    CASE expr.kind = "IDENTIFIER" -> ~hasPrefix(expr.type, "CONSTANT")
      [] expr.kind = "DOT" -> isUniqueReference(Arg(expr, 0))
      [] expr.kind = "ARRAY" ->
            isUniqueReference(Arg(expr, 0)) /\ ~dependsOn(Arg(expr, 1), persistentVariables)
      [] expr.kind \in {"PREINCREMENT", "PREDECREMENT"} \cup AssignKinds ->
            isUniqueReference(Arg(expr, 0))
      [] expr.kind = "INLINEIF" -> FALSE
      [] expr.kind = "COMMA" -> isUniqueReference(Arg(expr, 1))
      [] OTHER -> FALSE

typeOfBinaryNonInt(left, binaryop, right) ==
    CASE binaryop = "PLUS" ->
            IF (isInteger(left) /\ isClock(right)) \/ (isClock(left) /\ isInteger(right))
            THEN Prim("CLOCK")
            ELSE IF (isDiff(left) /\ isInteger(right)) \/ (isInteger(left) /\ isDiff(right))
            THEN Prim("DIFF")
            ELSE UNKNOWN
      [] binaryop = "MINUS" ->
            IF isClock(left) /\ isInteger(right)
            THEN Prim("CLOCK")
            ELSE IF \/ isDiff(left) /\ isInteger(right)
                    \/ isInteger(left) /\ isDiff(right)
                    \/ isClock(left) /\ isClock(right)
            THEN Prim("DIFF")
            ELSE UNKNOWN
      [] binaryop = "AND" ->
            IF isInvariant(left) /\ isInvariant(right) THEN Prim("INVARIANT")
            ELSE IF isInvariantWR(left) /\ isInvariantWR(right) THEN Prim("INVARIANT_WR")
            ELSE IF isGuard(left) /\ isGuard(right) THEN Prim("GUARD")
            ELSE IF isConstraint(left) /\ isConstraint(right) THEN Prim("CONSTRAINT")
            ELSE UNKNOWN
      [] binaryop = "OR" ->
            IF isValue(left) /\ isInvariant(right) THEN Prim("INVARIANT")
            ELSE IF isValue(left) /\ isGuard(right) THEN Prim("GUARD")
            ELSE IF isConstraint(left) /\ isConstraint(right) THEN Prim("CONSTRAINT")
            ELSE UNKNOWN
      [] binaryop \in {"LT", "LE"} ->
            IF \/ isClock(left) /\ isClock(right)
               \/ isClock(left) /\ isInteger(right)
               \/ isDiff(left) /\ isInteger(right)
               \/ isInteger(left) /\ isDiff(right)
            THEN Prim("INVARIANT")
            ELSE IF isInteger(left) /\ isClock(right) THEN Prim("GUARD")
            ELSE UNKNOWN
      [] binaryop = "EQ" ->
            IF \/ isClock(left) /\ isClock(right)
               \/ isClock(left) /\ isInteger(right)
               \/ isInteger(left) /\ isClock(right)
               \/ isDiff(left) /\ isInteger(right)
               \/ isInteger(left) /\ isDiff(right)
            THEN Prim("GUARD")
            ELSE IF (isRate(left) /\ isInteger(right)) \/ (isInteger(left) /\ isRate(right))
            THEN Prim("INVARIANT_WR")
            ELSE UNKNOWN
      [] binaryop = "NEQ" ->
            IF \/ isClock(left) /\ isClock(right)
               \/ isClock(left) /\ isInteger(right)
               \/ isInteger(left) /\ isClock(right)
               \/ isDiff(left) /\ isInteger(right)
               \/ isInteger(left) /\ isDiff(right)
            THEN Prim("CONSTRAINT")
            ELSE UNKNOWN
      [] binaryop \in {"GE", "GT"} ->
            IF \/ isClock(left) /\ isClock(right)
               \/ isInteger(left) /\ isClock(right)
               \/ isDiff(left) /\ isInteger(right)
               \/ isInteger(left) /\ isDiff(right)
            THEN Prim("INVARIANT")
            ELSE IF isClock(left) /\ isGuard(right) THEN Prim("GUARD")
            ELSE UNKNOWN
      [] OTHER -> UNKNOWN

RECURSIVE areInlineIfCompatible(_, _)
areInlineIfCompatible(thenArg, elseArg) ==
    IF typeIsValue(thenArg) /\ typeIsValue(elseArg) THEN TRUE
    ELSE IF typeIsClock(thenArg) /\ typeIsClock(elseArg) THEN TRUE
    ELSE IF thenArg.base = "CHANNEL" /\ elseArg.base = "CHANNEL"
    THEN /\ hasPrefix(thenArg, "URGENT") = hasPrefix(elseArg, "URGENT")
         /\ hasPrefix(thenArg, "BROADCAST") = hasPrefix(elseArg, "BROADCAST")
    ELSE IF thenArg.base = "ARRAY" /\ elseArg.base = "ARRAY"
    THEN LET thenSize == thenArg.size
             elseSize == elseArg.size
         IN  IF typeIsInteger(thenSize) /\ typeIsInteger(elseSize)
             THEN IF thenSize.lo # elseArg.lo \/ thenSize.hi # elseArg.hi
                  THEN FALSE
                  ELSE areInlineIfCompatible(thenArg.sub, elseArg.sub)
             ELSE IF typeIsScalar(thenSize) /\ typeIsScalar(elseSize)
             THEN IF thenSize # elseSize
                  THEN FALSE
                  ELSE areInlineIfCompatible(thenArg.sub, elseArg.sub)
             ELSE FALSE
    ELSE IF typeIsRecord(thenArg) /\ typeIsRecord(elseArg) THEN sameFrame(thenArg, elseArg)
    ELSE IF typeIsScalar(thenArg) /\ typeIsScalar(elseArg) THEN thenArg = elseArg
    ELSE FALSE

areAssignmentCompatible(lvalue, rvalue) ==
    IF typeIsClock(lvalue) /\ typeIsValue(rvalue) THEN TRUE
    ELSE IF typeIsValue(lvalue) /\ typeIsValue(rvalue) THEN TRUE
    ELSE IF typeIsRecord(lvalue) /\ typeIsRecord(rvalue) THEN sameFrame(lvalue, rvalue)
    ELSE IF typeIsScalar(lvalue) /\ typeIsScalar(rvalue) THEN lvalue = rvalue
    ELSE FALSE

\* channelCapability testing the prefixes in the other order.
channelCapabilityBroadcastFirst(type) ==
    IF hasPrefix(type, "BROADCAST") THEN 1
    ELSE IF hasPrefix(type, "URGENT") THEN 0
    ELSE 2

\* Lines 779-791.
channelCapability(type) ==
    IF hasPrefix(type, "URGENT") THEN 0
    ELSE IF hasPrefix(type, "BROADCAST") THEN 1
    ELSE 2

---------------------------------------------------------------------------
(* TypeChecker::checkParameterCompatible.  What the body throws is a       *)
(* message (none is ""), which the function reports at the argument.       *)

NoThrow == [msg |-> "", uncomputed |-> FALSE]

Thrown(m) == [msg |-> m, uncomputed |-> FALSE]

\* Thrown in the handler of InterpreterException.
ThrownUncomputed(m) == [msg |-> m, uncomputed |-> TRUE]

\* The arrays peeled without a comparison of their sizes.
peelArraysUnsized(paramType, argType) ==
    [ok |-> TRUE, param |-> StripArray(paramType), arg |-> StripArray(argType)]

RECURSIVE peelArrays(_, _)
peelArrays(paramType, argType) ==
    IF paramType.base # "ARRAY" THEN [ok |-> TRUE, param |-> paramType, arg |-> argType]
    ELSE IF argType.base # "ARRAY" THEN [ok |-> FALSE, param |-> paramType, arg |-> argType]
    ELSE LET argSize == argType.size
             paramSize == paramType.size
             bad == [ok |-> FALSE, param |-> paramType, arg |-> argType]
         IN  IF typeIsInteger(argSize) /\ typeIsInteger(paramSize)
             THEN IF argSize.lo # paramSize.lo \/ argSize.hi # paramSize.hi
                  THEN bad
                  ELSE peelArrays(paramType.sub, argType.sub)
             ELSE IF typeIsScalar(argSize) /\ typeIsScalar(paramSize)
             THEN IF argSize # paramSize
                  THEN bad
                  ELSE peelArrays(paramType.sub, argType.sub)
             ELSE bad

\* Interpreter::evaluate(expression_t, vector<int32_t> &): the values of a
\* list of values, or the value of a single expression.
evaluateList(arg, val) ==
    LET values(vs) == [ok |-> \A k \in 1..Len(vs) : vs[k].ok,
                       vs |-> [k \in 1..Len(vs) |-> vs[k].v]]
    IN  values(IF arg.kind = "LIST"
               THEN [k \in 1..Len(arg.sub) |-> evaluate(arg.sub[k], val)]
               ELSE <<evaluate(arg, val)>>)

\* range_t::join over the values (the convex hull), starting from the empty range.
joinValues(vs) ==
    IF vs = <<>> THEN [lower |-> 1, upper |-> 0]
    ELSE [lower |-> CHOOSE x \in {vs[k] : k \in 1..Len(vs)} :
                        \A k \in 1..Len(vs) : x <= vs[k],
          upper |-> CHOOSE x \in {vs[k] : k \in 1..Len(vs)} :
                        \A k \in 1..Len(vs) : x >= vs[k]]

\* The INT branch accepting every argument.
integerParameterErrorNever(val, paramType, argType, arg, ref, constant, lhs) == NoThrow

\* Lines 913-1016: the INT branch.
integerParameterError(val, paramType, argType, arg, ref, constant, lhs) ==
    LET outside == Thrown("Range of argument is outside of the range of the formal parameter")
        \* If the argument is an lvalue, its declared range is compared.
        byRange(paramRange, argRange) ==
            IF paramRange.ok /\ argRange.ok
            THEN IF ref /\ ~constant /\ ~rangeEqual(argRange, paramRange)
                 THEN Thrown("Range of argument does not match range of formal parameter")
                 ELSE IF ref /\ constant /\ ~rangeContains(paramRange, argRange)
                 THEN outside
                 ELSE IF rangeIsEmpty(rangeIntersect(paramRange, argRange))
                 THEN outside
                 ELSE NoThrow
            ELSE IF ref /\ (paramType.lo # argType.lo \/ paramType.hi # argType.hi)
                 THEN ThrownUncomputed(
                          "Range of argument does not match range of formal parameter")
                 ELSE NoThrow
        \* Otherwise the values of the argument are.
        byValue(paramRange, value) ==
            IF paramRange.ok /\ value.ok
            THEN IF ~rangeContains(paramRange, joinValues(value.vs)) THEN outside ELSE NoThrow
            ELSE NoThrow
        check(paramRange) ==
            IF lhs
            THEN byRange(paramRange, evaluateRange(argType, val))
            ELSE byValue(paramRange, evaluateList(arg, val))
    IN  IF paramType.lo.kind = "EMPTY" THEN NoThrow
        ELSE check(evaluateRange(paramType, val))

\* Lines 1024-1030: the CHANNEL branch.
channelParameterError(paramType, argType) ==
    IF channelCapability(argType) < channelCapability(paramType)
    THEN Thrown("Incompatible channel type")
    ELSE NoThrow

parameterError(val, paramType0, arg) ==
    LET ref == hasPrefix(paramType0, "REFERENCE")
        constant == hasPrefix(paramType0, "CONSTANT")
        toInt == ~ref /\ paramType0.base = "INT" /\ arg.type.base = "BOOL"
        toBool == ~ref /\ paramType0.base = "BOOL" /\ arg.type.base = "INT"
        argType0 == IF toInt THEN createInteger(RConst(0), RConst(1))
                    ELSE IF toBool THEN Prim("BOOL")
                    ELSE arg.type
        lhs == IF toInt \/ toBool THEN FALSE ELSE isLHSValue(arg)
        peeled == peelArrays(paramType0, argType0)
        paramType == peeled.param
        argType == peeled.arg
        base == paramType.base
    IN  IF ref /\ ~constant /\ ~lhs
        THEN Thrown("Reference parameter requires left value argument")
        ELSE IF ~peeled.ok THEN Thrown("Incompatible type")
        ELSE IF paramType.base # argType.base THEN Thrown("Incompatible argument")
        ELSE IF base = "CLOCK" \/ base = "BOOL" THEN NoThrow
        ELSE IF base = "INT"
        THEN integerParameterError(val, paramType, argType, arg, ref, constant, lhs)
        ELSE IF base = "RECORD"
        THEN IF ~sameFrame(paramType, argType) THEN Thrown("Argument has incompatible type") ELSE NoThrow
        ELSE IF base = "CHANNEL" THEN channelParameterError(paramType, argType)
        ELSE IF base = "SCALAR"
        THEN IF paramType # argType THEN Thrown("Argument has incompatible type") ELSE NoThrow
        ELSE NoThrow    \* assert(false): no error is reported

checkParameterCompatible(val, paramType, arg, pos) ==
    LET report(m) ==
            IF m.msg = "" THEN <<>>
            ELSE <<[pos |-> pos, msg |-> m.msg, uncomputed |-> m.uncomputed]>>
    IN  report(parameterError(val, paramType, arg))

\* TypeChecker::checkFunctionCallArguments: expr is an annotated FUNCALL.
checkFunctionCallArguments(val, expr, pos) ==
    LET parameters == Frame(Arg(expr, 0).type.id)
        nargs == getSize(expr) - 1
    IN  IF Len(parameters) > nargs
        THEN <<Err(pos, "Too few arguments")>>
        ELSE IF Len(parameters) < nargs
        THEN [k \in 1..(nargs - Len(parameters)) |->
                 Err(Append(pos, Len(parameters) + k), "Too many arguments")]
        ELSE SeqConcat([k \in 1..Len(parameters) |->
                 checkParameterCompatible(val, parameters[k].type, Arg(expr, k),
                                          Append(pos, k))])

---------------------------------------------------------------------------
(* TypeChecker::annotate, ::annotateAndExpectConstantInteger, ::checkType. *)

RECURSIVE annotate(_, _, _)
RECURSIVE checkType(_, _, _, _)

\* Returns [ok, errs].
annotateAndExpectConstantInteger(val, expr, pos) ==
    LET expect(a) ==
            IF ~a.ok THEN [ok |-> FALSE, errs |-> a.errs]
            ELSE IF ~isInteger(a.e)
            THEN [ok |-> FALSE,
                  errs |-> Append(a.errs, Err(pos, "Integer expression expected"))]
            ELSE IF dependsOn(a.e, persistentVariables)
            THEN [ok |-> FALSE,
                  errs |-> Append(a.errs, Err(pos, "Constant expression expected"))]
            ELSE [ok |-> TRUE, errs |-> a.errs]
    IN  expect(annotate(val, expr, pos))

\* The range check without the comparison of line 226.
invertedRangeNever(lower, upper) == FALSE

\* Line 226.
invertedRange(lower, upper) == lower > upper

\* Lines 192-257: the INT and SCALAR branch.  Returns the errors reported.
checkRangeType(val, type, inRecord, pos) ==
    LET \* Lines 215-252: the range is evaluated if both ends are constant integers.
        checkRange(lower, upper) ==
            IF ~lower.ok
            THEN IF inRecord
                 THEN <<Uncomputed(LoPos(pos), "Parameterised types not allowed in records")>>
                 ELSE <<>>
            ELSE IF ~upper.ok
            THEN IF inRecord
                 THEN <<Uncomputed(HiPos(pos), "Parameterised types not allowed in records")>>
                 ELSE <<>>
            ELSE IF invertedRange(lower.v, upper.v)
            THEN <<Err(HiPos(pos), "Invalid integer range")>>
            ELSE <<>>
        \* Lines 197-212: end[1] and end[2] are the checks of the two ends, the
        \* second made if the first succeeds.
        checkEnds(l, u, end) ==
            IF l.kind = "EMPTY" THEN <<>>
            ELSE IF ~end[1].ok THEN end[1].errs
            ELSE IF ~end[2].ok THEN end[1].errs \o end[2].errs
            ELSE end[1].errs \o end[2].errs \o checkRange(evaluate(l, val), evaluate(u, val))
    IN  checkEnds(AsExpr(type.lo), AsExpr(type.hi),
                  [k \in 1..2 |->
                      annotateAndExpectConstantInteger(val,
                          AsExpr(IF k = 1 THEN type.lo ELSE type.hi),
                          IF k = 1 THEN LoPos(pos) ELSE HiPos(pos))])

\* Lines 263-298: the size of an array, after its size and element types.
checkArraySize(val, size, inRecord, pos) ==
    IF ~typeIsScalar(size)
    THEN <<Err(HiPos(SizePos(pos)), "Invalid array size")>>
    ELSE LET checkSize(range) ==
                 IF ~range.ok
                 THEN IF inRecord
                      THEN <<Uncomputed(HiPos(SizePos(pos)),
                                        "Parameterised types not allowed in records")>>
                      ELSE <<>>
                 ELSE IF range.lower > range.upper
                 THEN <<Err(HiPos(SizePos(pos)), "Invalid array size")>>
                 ELSE <<>>
         IN  checkSize(evaluateRange(size, val))

checkType(val, type, inRecord, pos) ==
    IF type.base = "INT" \/ type.base = "SCALAR"
    THEN checkRangeType(val, type, inRecord, pos)
    ELSE IF type.base = "ARRAY"
    THEN checkType(val, type.size, FALSE, SizePos(pos))
         \o checkType(val, type.sub, inRecord, SubPos(pos))
         \o checkArraySize(val, type.size, inRecord, pos)
    ELSE IF type.base = "RECORD"
    THEN LET checkFields(frame) ==
                 SeqConcat([k \in 1..Len(frame) |->
                               checkType(val, frame[k].type, TRUE, Append(pos, k - 1))])
         IN  checkFields(Frame(type.id))
    ELSE <<>>

isCommaOperand(e) ==
    isValue(e) \/ isScalar(e) \/ isClock(e) \/ isRecord(e) \/ isVoid(e) \/ isCost(e)

\* Lines 1558-1589.
annotateEquality(expr, pos, errs) ==
    IF isValue(Arg(expr, 0)) /\ isValue(Arg(expr, 1)) THEN Typed(expr, Prim("BOOL"), errs)
    ELSE IF /\ isRecord(Arg(expr, 0)) /\ isRecord(Arg(expr, 1))
            /\ sameFrame(Arg(expr, 0).type, Arg(expr, 1).type)
    THEN Typed(expr, Prim("BOOL"), errs)
    ELSE IF Arg(expr, 0).type.base = "SCALAR" \/ Arg(expr, 1).type.base = "SCALAR"
    THEN IF Arg(expr, 0).type # Arg(expr, 1).type
         THEN Fail(expr, errs, pos,
                   "Scalars can only be compared to scalars of the same scalarset")
         ELSE Typed(expr, Prim("BOOL"), errs)
    ELSE LET typed(type) ==
                 IF type = UNKNOWN
                 THEN Fail(expr, errs, pos, "Invalid operands to binary operator")
                 ELSE Typed(expr, type, errs)
         IN  typed(typeOfBinaryNonInt(Arg(expr, 0), expr.kind, Arg(expr, 1)))

\* Lines 1591-1637: value is INT for the arithmetic kinds, BOOL for the others.
annotateBinary(expr, pos, errs, value) ==
    IF isValue(Arg(expr, 0)) /\ isValue(Arg(expr, 1)) THEN Typed(expr, value, errs)
    ELSE LET typed(type) ==
                 IF type = UNKNOWN
                 THEN Fail(expr, errs, pos, "Invalid operands to binary operator")
                 ELSE Typed(expr, type, errs)
         IN  typed(typeOfBinaryNonInt(Arg(expr, 0), expr.kind, Arg(expr, 1)))

\* annotateUnary returning false on a bad operand without reporting it.
annotateUnarySilent(expr, pos, errs) ==
    CASE expr.kind = "NOT" ->
            IF isValue(Arg(expr, 0)) THEN Typed(expr, Prim("BOOL"), errs)
            ELSE IF isConstraint(Arg(expr, 0)) THEN Typed(expr, Prim("CONSTRAINT"), errs)
            ELSE Res(FALSE, expr, errs)
      [] expr.kind = "UNARY_MINUS" ->
            IF ~isValue(Arg(expr, 0))
            THEN Res(FALSE, expr, errs)
            ELSE Typed(expr, Prim("INT"), errs)
      [] OTHER ->
            IF ~isCost(Arg(expr, 0))
            THEN Res(FALSE, expr, errs)
            ELSE Typed(expr, Prim("RATE"), errs)

\* Lines 1639-1671.
annotateUnary(expr, pos, errs) ==
    CASE expr.kind = "NOT" ->
            IF isValue(Arg(expr, 0)) THEN Typed(expr, Prim("BOOL"), errs)
            ELSE IF isConstraint(Arg(expr, 0)) THEN Typed(expr, Prim("CONSTRAINT"), errs)
            ELSE Fail(expr, errs, pos, "Invalid operation for type")
      [] expr.kind = "UNARY_MINUS" ->
            IF ~isValue(Arg(expr, 0))
            THEN Fail(expr, errs, pos, "Invalid operation for type")
            ELSE Typed(expr, Prim("INT"), errs)
      [] OTHER ->    \* RATE
            IF ~isCost(Arg(expr, 0))
            THEN Fail(expr, errs, pos, "Can only apply rate to cost variables")
            ELSE Typed(expr, Prim("RATE"), errs)

\* Lines 1673-1685.
annotateAssign(expr, pos, errs) ==
    IF ~areAssignmentCompatible(Arg(expr, 0).type, Arg(expr, 1).type)
    THEN Fail(expr, errs, pos, "Incompatible types")
    ELSE IF ~isLHSValue(Arg(expr, 0))
    THEN Fail(expr, errs, Append(pos, 0), "Left hand side value expected")
    ELSE Typed(expr, Arg(expr, 0).type, errs)

\* annotateAssPlus without the check of the left hand side.
annotateAssPlusNoLhs(expr, pos, errs) ==
    IF (~isInteger(Arg(expr, 0)) /\ ~isCost(Arg(expr, 0))) \/ ~isInteger(Arg(expr, 1))
    THEN Typed(expr, Arg(expr, 0).type,
               Append(errs, Err(pos,
                   "Increment operator can only be used for integer and cost variables.")))
    ELSE Typed(expr, Arg(expr, 0).type, errs)

\* Lines 1687-1694: the errors are reported, and the node is typed all the same.
annotateAssPlus(expr, pos, errs) ==
    IF (~isInteger(Arg(expr, 0)) /\ ~isCost(Arg(expr, 0))) \/ ~isInteger(Arg(expr, 1))
    THEN Typed(expr, Arg(expr, 0).type,
               Append(errs, Err(pos,
                   "Increment operator can only be used for integer and cost variables.")))
    ELSE IF ~isLHSValue(Arg(expr, 0))
    THEN Typed(expr, Arg(expr, 0).type,
               Append(errs, Err(Append(pos, 0), "Left hand side value expected")))
    ELSE Typed(expr, Arg(expr, 0).type, errs)

\* annotateCompound giving the node the type Int.
annotateCompoundInt(expr, pos, errs) ==
    IF ~isValue(Arg(expr, 0)) \/ ~isValue(Arg(expr, 1))
    THEN Fail(expr, errs, pos, "Non-integer types must use regular assignment operator")
    ELSE IF ~isLHSValue(Arg(expr, 0))
    THEN Fail(expr, errs, Append(pos, 0), "Left hand side value expected")
    ELSE Typed(expr, Prim("INT"), errs)

\* Lines 1696-1716.
annotateCompound(expr, pos, errs) ==
    IF ~isValue(Arg(expr, 0)) \/ ~isValue(Arg(expr, 1))
    THEN Fail(expr, errs, pos, "Non-integer types must use regular assignment operator")
    ELSE IF ~isLHSValue(Arg(expr, 0))
    THEN Fail(expr, errs, Append(pos, 0), "Left hand side value expected")
    ELSE Typed(expr, Arg(expr, 0).type, errs)

\* Lines 1718-1733.
annotateIncDec(expr, pos, errs) ==
    IF ~isLHSValue(Arg(expr, 0))
    THEN Fail(expr, errs, Append(pos, 0), "Left hand side value expected")
    ELSE IF ~isInteger(Arg(expr, 0))
    THEN Fail(expr, errs, pos, "Integer expected")
    ELSE Typed(expr, Prim("INT"), errs)

\* Lines 1735-1747.
annotateInlineIf(expr, pos, errs) ==
    IF ~isValue(Arg(expr, 0))
    THEN Fail(expr, errs, pos, "First argument of inline if must be an integer")
    ELSE IF ~areInlineIfCompatible(Arg(expr, 1).type, Arg(expr, 2).type)
    THEN Fail(expr, errs, pos, "Incompatible arguments to inline if")
    ELSE Typed(expr, Arg(expr, 1).type, errs)

\* Lines 1749-1760.
annotateComma(expr, pos, errs) ==
    IF ~isCommaOperand(Arg(expr, 0))
    THEN Fail(expr, errs, Append(pos, 0), "Incompatible type for comma expression")
    ELSE IF ~isCommaOperand(Arg(expr, 1))
    THEN Fail(expr, errs, Append(pos, 1), "Incompatible type for comma expression")
    ELSE Typed(expr, Arg(expr, 1).type, errs)

\* Lines 1762-1771: the callee is annotated once more; the errors of the
\* argument check are reported and the call returns true, its type as built.
annotateFunCall(val, expr, pos, errs) ==
    LET again == annotate(val, Arg(expr, 0), Append(pos, 0))
        errs1 == errs \o again.errs
    IN  IF Arg(expr, 0).type.base # "FUNCTION"
        THEN Fail(expr, errs1, Append(pos, 0), "Function name expected")
        ELSE Res(TRUE, expr, errs1 \o checkFunctionCallArguments(val, expr, pos))

\* Lines 1773-1817.
annotateArray(val, expr, pos, errs) ==
    LET \* The index is checked if it and the size of the array can be evaluated.
        inRange(index, range) ==
            ~(index.ok /\ range.ok) \/ rangeContainsInt(range, index.v)
        subscript(arg1, arg2) ==
            IF arg1.base # "ARRAY"
            THEN Fail(expr, errs, Append(pos, 0), "Array expected")
            ELSE IF typeIsInteger(arg1.size) /\ typeIsValue(arg2)
            THEN IF ~inRange(evaluate(Arg(expr, 1), val), evaluateRange(arg1.size, val))
                 THEN Fail(expr, errs, Append(pos, 1), "Array index out of range")
                 ELSE Typed(expr, arg1.sub, errs)
            ELSE IF typeIsScalar(arg1.size) /\ typeIsScalar(arg2)
            THEN IF arg1.size # arg2
                 THEN Fail(expr, errs, Append(pos, 1), "Incompatible type")
                 ELSE Typed(expr, arg1.sub, errs)
            ELSE Typed(expr, arg1.sub, errs)
    IN  subscript(Arg(expr, 0).type, Arg(expr, 1).type)

\* Lines 1820-1849: both errors are reported, and the call returns true.
annotateForall(val, expr, pos, errs) ==
    LET sideEffects(body) ==
            IF ~isSideEffectFree(body)
            THEN <<Err(Append(pos, 1), "Expression must be side effect free")>>
            ELSE <<>>
        quantified(body, type, errs1) ==
            Typed(expr, type,
                  errs1
                  \o (IF type = UNKNOWN
                      THEN <<Err(Append(pos, 1), "Boolean expected")>>
                      ELSE <<>>)
                  \o sideEffects(body))
        typeOf(body) ==
            IF isValue(body) THEN Prim("BOOL")
            ELSE IF isInvariant(body) THEN Prim("INVARIANT")
            ELSE IF isGuard(body) THEN Prim("GUARD")
            ELSE IF isConstraint(body) THEN Prim("CONSTRAINT")
            ELSE UNKNOWN
    IN  quantified(Arg(expr, 1), typeOf(Arg(expr, 1)),
                   errs \o checkType(val, SymType(getSymbol(Arg(expr, 0))), FALSE,
                                     Append(pos, 0)))

\* Lines 1536-1553: kids are the results of annotating the children of the
\* node, all of them; the switch is entered if none of them failed.
annotateNode(val, node, pos, kids) ==
    LET expr == [node EXCEPT !.sub = [k \in 1..Len(kids) |-> kids[k].e]]
        errs == SeqConcat([k \in 1..Len(kids) |-> kids[k].errs])
    IN  IF \E k \in 1..Len(kids) : ~kids[k].ok THEN Res(FALSE, expr, errs)
        ELSE CASE expr.kind \in {"EQ", "NEQ"} -> annotateEquality(expr, pos, errs)
               [] expr.kind \in ArithKinds -> annotateBinary(expr, pos, errs, Prim("INT"))
               [] expr.kind \in LogicKinds -> annotateBinary(expr, pos, errs, Prim("BOOL"))
               [] expr.kind \in {"NOT", "UNARY_MINUS", "RATE"} -> annotateUnary(expr, pos, errs)
               [] expr.kind = "ASSIGN" -> annotateAssign(expr, pos, errs)
               [] expr.kind = "ASSPLUS" -> annotateAssPlus(expr, pos, errs)
               [] expr.kind \in CompoundKinds -> annotateCompound(expr, pos, errs)
               [] expr.kind \in IncDecKinds -> annotateIncDec(expr, pos, errs)
               [] expr.kind = "INLINEIF" -> annotateInlineIf(expr, pos, errs)
               [] expr.kind = "COMMA" -> annotateComma(expr, pos, errs)
               [] expr.kind = "FUNCALL" -> annotateFunCall(val, expr, pos, errs)
               [] expr.kind = "ARRAY" -> annotateArray(val, expr, pos, errs)
               [] expr.kind = "FORALL" -> annotateForall(val, expr, pos, errs)
               [] OTHER -> Res(TRUE, expr, errs)

annotate(val, expr, pos) ==
    IF expr.kind = "EMPTY" THEN Res(TRUE, expr, <<>>)
    ELSE annotateNode(val, expr, pos,
                      [k \in 1..Len(expr.sub) |->
                          annotate(val, expr.sub[k], Append(pos, k - 1))])

---------------------------------------------------------------------------
(* Expression trees handed to the analyzer by the builder.  Operator nodes *)
(* arrive untyped; identifiers, literals and calls arrive typed.           *)

Call(callee, args) ==
    [Node("FUNCALL", <<callee>> \o args) EXCEPT
        !.type = IF callee.type.base = "FUNCTION" THEN callee.type.sub ELSE UNKNOWN]

\* The literals, one of them beyond the declared ranges [0, MaxVal].
Literals == {Const(v) : v \in 0..(MaxVal + 1)}

ExpressionTasks ==
    LET LeafExprs ==
            {Ident(s) : s \in {"i", "n", "p", "b", "c", "cost", "x", "y", "r", "a", "sa", "f"}}
            \cup Literals
        SmallLeaves == {Ident("i"), Ident("n"), Ident("c"), Ident("cost"), Ident("a")}
        BinaryKinds ==
            {"EQ", "NEQ", "ASSIGN", "ASSPLUS", "COMMA", "ARRAY"}
            \cup ArithKinds \cup LogicKinds \cup CompoundKinds
        UnaryKinds == {"NOT", "UNARY_MINUS", "RATE"} \cup IncDecKinds
        InnerKinds == {"PLUS", "MINUS", "LE", "EQ", "ASSPLUS", "ASSIGN", "ARRAY", "COMMA"}
        OuterKinds == {"AND", "PLUS", "ASSIGN", "ASSPLUS", "ASSMINUS", "EQ", "COMMA", "LT"}
        FlatExprs ==
            {Node(k, <<l, r>>) : k \in BinaryKinds, l \in LeafExprs, r \in LeafExprs}
            \cup {Node(k, <<l>>) : k \in UnaryKinds, l \in LeafExprs}
            \cup {Node("INLINEIF", <<c, l, r>>) :
                    c \in {Ident("b"), Ident("c")}, l \in SmallLeaves, r \in SmallLeaves}
            \cup {Node("FORALL", <<v, l>>) :
                    v \in {Ident("i"), Ident("q")}, l \in LeafExprs}
            \cup {Call(g, <<>>) : g \in {Ident("f"), Ident("i")}}
            \cup {Call(g, <<l>>) : g \in {Ident("f"), Ident("i")}, l \in LeafExprs}
            \cup {Call(Ident("f"), <<l, r>>) : l \in SmallLeaves, r \in SmallLeaves}
        InnerExprs ==
            {Node(k, <<l, r>>) : k \in InnerKinds, l \in SmallLeaves, r \in SmallLeaves}
            \cup {Node("RATE", <<l>>) : l \in SmallLeaves}
            \cup {Call(Ident("f"), <<l>>) : l \in {Ident("i"), Ident("c"), Const(MaxVal + 1)}}
        NestedExprs ==
            {Node(k, <<d, l>>) : k \in OuterKinds, d \in InnerExprs, l \in SmallLeaves}
            \cup {Node(k, <<l, d>>) : k \in OuterKinds, d \in InnerExprs, l \in SmallLeaves}
            \cup {Node(k, <<d>>) : k \in {"NOT", "UNARY_MINUS", "PREINCREMENT", "POSTINCREMENT"},
                                   d \in InnerExprs}
            \cup {Node("FORALL", <<Ident("i"), d>>) : d \in InnerExprs}
            \cup {Node("ASSIGN", <<Node(k, <<Ident("i")>>), Const(1)>>) : k \in IncDecKinds}
    IN  {[op |-> "expression", expr |-> e] : e \in FlatExprs \cup NestedExprs}

\* The constant valuation once the global constants are visited: const int n = 1.
GlobalValuation == [s \in {"n"} |-> Const(1)]

\* The symbols of the global frame and of the template, as the builder declared them.
GlobalSymbols ==
    [s \in Variables \cup TemplateParameters \cup {"f", "fc", "fu", "fb", "fr"} |->
        declaredType(s)]

NoOutput == [op |-> "none"]

---------------------------------------------------------------------------
(* TypeChecker::checkExpression: annotate one expression. *)

InitAnnotate ==
    /\ symbols = GlobalSymbols
    /\ task \in ExpressionTasks
    /\ pc = "ready"
    /\ out = NoOutput
    /\ errors = <<>>
    /\ valuation = GlobalValuation

checkExpression ==
    /\ pc = "ready"
    /\ task.op = "expression"
    /\ LET checked(a) ==
               /\ out' = [op |-> "expression", e |-> a.e, ok |-> a.ok]
               /\ errors' = errors \o a.errs
       IN  checked(annotate(valuation, task.expr, <<>>))
    /\ pc' = "done"
    /\ UNCHANGED <<task, valuation, symbols>>

NextAnnotate == checkExpression

SpecAnnotate == InitAnnotate /\ [][NextAnnotate]_vars

---------------------------------------------------------------------------
(* Nodes of a tree and their positions. *)

RECURSIVE Paths(_)
Paths(e) ==
    {<<>>} \cup UNION {{<<k - 1>> \o q : q \in Paths(e.sub[k])} : k \in 1..Len(e.sub)}

RECURSIVE NodeAt(_, _)
NodeAt(e, q) == IF q = <<>> THEN e ELSE NodeAt(e.sub[Head(q) + 1], Tail(q))

IsPrefix(a, b) == Len(a) <= Len(b) /\ SubSeq(b, 1, Len(a)) = a

ErrorPositions == {errors[k].pos : k \in 1..Len(errors)}

Annotated == pc = "done" /\ task.op = "expression"

\* C1 as stated: after annotate(e), every node of the tree has a type whose
\* base is not Unknown, or an error was reported at the node's position or
\* at the position of one of its ancestors.
C1_TotalityByAncestor ==
    Annotated =>
        \A q \in Paths(out.e) :
            \/ NodeAt(out.e, q).type.base # "UNKNOWN"
            \/ \E p \in ErrorPositions : IsPrefix(p, q)

\* C1 as amended: after annotate(e), every node of the tree has a type whose
\* base is not Unknown, or an error was reported at the node's position or
\* at a position below it (at one of its descendants or in a type they name).
C1_TotalityBySubtree ==
    Annotated =>
        \A q \in Paths(out.e) :
            \/ NodeAt(out.e, q).type.base # "UNKNOWN"
            \/ \E p \in ErrorPositions : IsPrefix(q, p)

\* A node left Unknown above the operand that failed: (c + c) + 1 and the like.
C1_Witness ==
    /\ Annotated
    /\ Len(errors) = 1
    /\ Len(errors[1].pos) = 1
    /\ out.e.type.base = "UNKNOWN"
    /\ NodeAt(out.e, errors[1].pos).type.base = "UNKNOWN"

\* C2: annotate(e) returns true if and only if no error was reported while
\* annotating e or any of its sub-expressions.
C2_TrueIffNoError == Annotated => (out.ok <=> errors = <<>>)

\* No error was reported at or below position q.
NoErrorBelow(q) == \A p \in ErrorPositions : ~IsPrefix(q, p)

\* C3: every assignment, compound assignment and increment/decrement node
\* on which no error was reported has an lhs as its first operand.
C3_LhsSoundness ==
    Annotated =>
        \A q \in Paths(out.e) :
            LET node == NodeAt(out.e, q)
            IN  (node.kind \in AssignKinds \cup IncDecKinds /\ NoErrorBelow(q))
                    => isLHSValue(Arg(node, 0))

\* A nested assignment that passed: the inner += under an outer operator.
C3_Witness ==
    /\ Annotated
    /\ errors = <<>>
    /\ Len(out.e.sub) = 2
    /\ Arg(out.e, 0).kind = "ASSPLUS"
    /\ out.e.kind \in AssignKinds
    /\ isLHSValue(Arg(Arg(out.e, 0), 0))


---------------------------------------------------------------------------
(* TypeChecker::checkInitialiser(type_t, expression_t).  The result tells  *)
(* whether the call returned or threw an InitialiserException: e is the    *)
(* expression returned, exc the error the exception carries, errs the      *)
(* errors reported through handleError on the way.                         *)

Return(e, errs) == [thrown |-> FALSE, e |-> e, errs |-> errs, exc |-> Err(<<>>, "")]

Raise(errs, exc) == [thrown |-> TRUE, e |-> EmptyExpr, errs |-> errs, exc |-> exc]

\* type_t::getRecordFields(): the frame of a declared record, the frame of
\* a list, and no field for a type that has no frame.
getRecordFields(t) ==
    IF t.base # "RECORD" THEN << >>
    ELSE IF t.id # 0 THEN Frame(t.id)
    ELSE [k \in 1..Len(t.names) |-> [name |-> t.names[k], type |-> UNKNOWN]]

\* frame_t::getIndexOf: the index of the symbol of that name, or -1.
getIndexOf(fields, name) ==
    IF \E k \in 1..Len(fields) : fields[k].name = name
    THEN (CHOOSE k \in 1..Len(fields) : fields[k].name = name) - 1
    ELSE 0 - 1

\* expression_t::createNary with the type of the new node.
createNary(kind, args, type) == [Node(kind, args) EXCEPT !.type = type]

\* size < (uint32_t)dim for a size below 2^31: the conversion of a negative
\* dim is 2^32 + dim, above every such size.
belowUint32(size, dim) == IF dim < 0 THEN TRUE ELSE size < dim

RECURSIVE checkInitialiser(_, _, _, _)

\* Line 1090.
excessElements(init, dim) == ~belowUint32(getSize(init), dim) /\ getSize(init) # dim

\* The array branch without the check of line 1109.
missingFieldsNever(fields, dim) == FALSE

\* Line 1109.
missingFields(fields, dim) == belowUint32(Len(fields), dim)

\* Line 1101.
namedField(field) == field.name # ""

\* Lines 1099-1107: the loop, from field i (counted from 1) on.
RECURSIVE checkArrayElements(_, _, _, _, _, _, _, _)
checkArrayElements(val, subtype, fields, init, pos, i, result, errs) ==
    IF i > Len(fields) THEN Return(result, errs)
    ELSE IF namedField(fields[i])
    THEN Raise(errs, Err(Append(pos, i - 1), "Unknown field specified in initialiser"))
    ELSE LET c == checkInitialiser(val, subtype, init.sub[i], Append(pos, i - 1))
         IN  IF c.thrown THEN Raise(errs \o c.errs, c.exc)
             ELSE checkArrayElements(val, subtype, fields, init, pos, i + 1,
                                     Append(result, c.e), errs \o c.errs)

\* Lines 1064-1115.
checkArrayInitialiser(val, type, init, pos) ==
    LET size == type.size
        lower == evaluate(AsExpr(size.lo), val)
        upper == evaluate(AsExpr(size.hi), val)
        dim == upper.v - lower.v + 1
        fields == getRecordFields(init.type)
        elements == checkArrayElements(val, type.sub, fields, init, pos, 1, << >>, << >>)
    IN  IF init.kind # "LIST"
        THEN Raise(<< >>, Err(pos, "Invalid array initialiser"))
        ELSE IF ~typeIsInteger(size)
        THEN Raise(<< >>, Err(pos, "Arrays of scalarsets cannot have initialisers"))
        ELSE IF ~lower.ok \/ ~upper.ok
        THEN Raise(<< >>, Uncomputed(pos,
                 "Arrays with parameterized size cannot have an initialiser"))
        ELSE IF excessElements(init, dim)
        THEN Raise(<< >>, Err(pos, "Excess elements in array initialiser"))
        ELSE IF elements.thrown THEN elements
        ELSE IF missingFields(fields, dim)
        THEN Raise(elements.errs, Err(pos, "Missing fields in initialiser"))
        ELSE Return(createNary("LIST", elements.e, type), elements.errs)

\* The INT branch throwing when the value or the range cannot be computed.
checkIntegerInitialiserStrict(val, type, init, pos) ==
    IF ~isValue(init) THEN Raise(<< >>, Err(pos, "Invalid initialiser"))
    ELSE IF type.lo.kind = "EMPTY" THEN Return(init, << >>)
    ELSE LET n == evaluate(init, val)
             range == evaluateRange(type, val)
         IN  IF ~n.ok \/ ~range.ok
             THEN Raise(<< >>, Uncomputed(pos, "Initialiser is out of range"))
             ELSE IF ~rangeContainsInt(range, n.v)
             THEN Raise(<< >>, Err(pos, "Initialiser is out of range"))
             ELSE Return(init, << >>)

\* The INT branch without the check of the range.
checkIntegerInitialiserUnchecked(val, type, init, pos) ==
    IF ~isValue(init) THEN Raise(<< >>, Err(pos, "Invalid initialiser"))
    ELSE Return(init, << >>)

\* Lines 1123-1160.
checkIntegerInitialiser(val, type, init, pos) ==
    IF ~isValue(init) THEN Raise(<< >>, Err(pos, "Invalid initialiser"))
    ELSE IF type.lo.kind = "EMPTY" THEN Return(init, << >>)
    ELSE LET n == evaluate(init, val)
             range == evaluateRange(type, val)
         IN  IF n.ok /\ range.ok /\ ~rangeContainsInt(range, n.v)
             THEN Raise(<< >>, Err(pos, "Initialiser is out of range"))
             ELSE Return(init, << >>)

\* The record branch without the check of line 1197.
alreadyInitialisedNever(result, current) == FALSE

\* Line 1197.
alreadyInitialised(result, current) == result[current + 1].kind # "EMPTY"

\* Lines 1179-1205: the loop, from initialiser i (counted from 1) on.  A
\* break ends the loop with the result so far.
RECURSIVE checkRecordElements(_, _, _, _, _, _, _, _, _)
checkRecordElements(val, fields, initialisers, init, pos, i, current0, result, errs) ==
    IF i > Len(initialisers) THEN Return(result, errs)
    ELSE LET named == initialisers[i].name # ""
             current == IF named THEN getIndexOf(fields, initialisers[i].name)
                        ELSE current0
             here == Append(pos, i - 1)
         IN  IF named /\ current = 0 - 1
             THEN Return(result, Append(errs, Err(here, "Unknown field")))
             ELSE IF current >= Len(fields)
             THEN Return(result, Append(errs, Err(here, "Excess elements in intialiser")))
             ELSE IF alreadyInitialised(result, current)
             THEN checkRecordElements(val, fields, initialisers, init, pos, i + 1,
                      current + 1, result,
                      Append(errs, Err(here, "Multiple initialisers for field")))
             ELSE LET c == checkInitialiser(val, fields[current + 1].type, init.sub[i], here)
                  IN  IF c.thrown THEN Raise(errs \o c.errs, c.exc)
                      ELSE checkRecordElements(val, fields, initialisers, init, pos,
                               i + 1, current + 1,
                               [result EXCEPT ![current + 1] = c.e], errs \o c.errs)

\* Lines 1161-1218.
checkRecordInitialiser(val, type, init, pos) ==
    LET fields == getRecordFields(type)
        initialisers == getRecordFields(init.type)
        elements == checkRecordElements(val, fields, initialisers, init, pos, 1, 0,
                        [k \in 1..Len(fields) |-> EmptyExpr], << >>)
    IN  IF init.type.base = "RECORD" /\ sameFrame(type, init.type)
        THEN Return(init, << >>)
        ELSE IF init.kind # "LIST"
        THEN Raise(<< >>, Err(pos, "Invalid initialiser for struct"))
        ELSE IF elements.thrown THEN elements
        ELSE IF \E k \in 1..Len(fields) : elements.e[k].kind = "EMPTY"
        THEN Raise(elements.errs, Err(pos, "Incomplete initialiser"))
        ELSE Return(createNary("LIST", elements.e, type), elements.errs)

checkInitialiser(val, type, init, pos) ==
    CASE type.base = "ARRAY"  -> checkArrayInitialiser(val, type, init, pos)
      [] type.base = "BOOL"   ->
            IF ~isValue(init) THEN Raise(<< >>, Err(pos, "Invalid initialiser"))
            ELSE Return(init, << >>)
      [] type.base = "INT"    -> checkIntegerInitialiser(val, type, init, pos)
      [] type.base = "RECORD" -> checkRecordInitialiser(val, type, init, pos)
      [] OTHER -> Raise(<< >>, Err(pos, "Invalid initialiser"))

\* Lines 1227-1251: TypeChecker::checkInitialiser(variable_t &).  The result
\* is the initialiser of the variable after the call, the errors reported,
\* and whether the inner check was made and returned.
\* a is the initialiser as annotate left it (lines 1231-1250).
checkVariableInitialiser(val, type, a, pos) ==
    LET checked(c) ==
            IF c.thrown
            THEN [expr |-> a.e, returned |-> FALSE, errs |-> a.errs \o c.errs \o <<c.exc>>]
            ELSE [expr |-> c.e, returned |-> TRUE, errs |-> a.errs \o c.errs]
    IN  IF a.e.kind = "EMPTY"
        THEN [expr |-> a.e, errs |-> << >>, returned |-> FALSE]
        ELSE IF ~a.ok
        THEN [expr |-> a.e, errs |-> a.errs, returned |-> FALSE]
        ELSE IF dependsOn(a.e, persistentVariables)
        THEN [expr |-> a.e, returned |-> FALSE,
              errs |-> Append(a.errs, Err(pos, "Constant expression expected"))]
        ELSE IF ~isSideEffectFree(a.e)
        THEN [expr |-> a.e, returned |-> FALSE,
              errs |-> Append(a.errs, Err(pos, "Initialiser must not have side effects"))]
        ELSE checked(checkInitialiser(val, type, a.e, pos))

---------------------------------------------------------------------------
(* RateDecomposer. *)

\* expression_t::createBinary at position_t(), the type of the node not given.
createBinary(kind, left, right) == Node(kind, <<left, right>>)

\* A decomposer as constructed.  failed: an assertion of decompose failed.
RateDecomposer == [rate |-> << >>, invariant |-> EmptyExpr, failed |-> FALSE]

\* Lines 357-365 with the new conjunct put first.
conjoinReversed(invariant, expr) ==
    IF invariant.kind = "EMPTY" THEN expr
    ELSE createBinary("AND", expr, invariant)

\* Lines 357-365.
conjoin(invariant, expr) ==
    IF invariant.kind = "EMPTY" THEN expr
    ELSE createBinary("AND", invariant, expr)

\* Lines 377-384.
ratePair(expr) ==
    IF isRate(Arg(expr, 0))
    THEN <<Arg(Arg(expr, 0), 0), Arg(expr, 1)>>
    ELSE <<Arg(Arg(expr, 1), 0), Arg(expr, 0)>>

\* Lines 350-386.
RECURSIVE decompose(_, _)
decompose(d, expr) ==
    IF d.failed THEN d
    ELSE IF ~isInvariantWR(expr) THEN [d EXCEPT !.failed = TRUE]
    ELSE IF ~(isInvariant(expr) \/ expr.kind = "AND" \/ expr.kind = "EQ")
    THEN [d EXCEPT !.failed = TRUE]
    ELSE IF isInvariant(expr) THEN [d EXCEPT !.invariant = conjoin(@, expr)]
    ELSE IF expr.kind = "AND"
    THEN decompose(decompose(d, Arg(expr, 0)), Arg(expr, 1))
    ELSE IF isRate(Arg(expr, 0)) = isRate(Arg(expr, 1)) THEN [d EXCEPT !.failed = TRUE]
    ELSE [d EXCEPT !.rate = Append(@, ratePair(expr))]

---------------------------------------------------------------------------
(* Locations and their invariants. *)

StateTasks ==
    LET PureConjuncts ==
            {Node("LE", <<Ident("c"), Const(1)>>), Node("LT", <<Ident("c"), Ident("n")>>),
             Ident("b"), Node("GE", <<Ident("c"), Const(1)>>)}
        RateConjuncts ==
            {Node("EQ", <<Node("RATE", <<Ident("cost")>>), Const(1)>>),
             Node("EQ", <<Const(2), Node("RATE", <<Ident("cost")>>)>>),
             Node("EQ", <<Node("RATE", <<Ident("c")>>), Const(1)>>)}
        Conjuncts ==
            PureConjuncts \cup RateConjuncts
            \cup {Ident("c"), Node("ASSIGN", <<Ident("i"), Const(1)>>)}
        Invariants ==
            Conjuncts
            \cup {Node("AND", <<x, y>>) : x \in Conjuncts, y \in Conjuncts}
            \cup {Node("AND", <<Node("AND", <<x, y>>), z>>) :
                    x \in Conjuncts, y \in Conjuncts, z \in Conjuncts}
            \cup {Node("AND", <<x, Node("AND", <<y, z>>)>>) :
                    x \in Conjuncts, y \in Conjuncts, z \in Conjuncts}
        \* Operators applied to a rate equality.
        OverRate(e) ==
            {Node(k, <<e, x>>) : k \in {"OR", "ASSPLUS", "EQ", "COMMA", "ASSIGN", "PLUS", "LT"},
                                 x \in {e, Ident("b"), Const(1)}}
            \cup {Node("OR", <<Ident("b"), e>>), Node("NOT", <<e>>),
                  Node("FORALL", <<Ident("i"), e>>),
                  Node("INLINEIF", <<Ident("b"), e, e>>),
                  Node("AND", <<Node("ASSPLUS", <<e, Const(1)>>), Ident("b")>>),
                  Node("EQ", <<Node("RATE", <<Ident("cost")>>), Node("RATE", <<Ident("cost")>>)>>),
                  Node("EQ", <<Node("RATE", <<Ident("cost")>>), Ident("b")>>)}
        State(invariant) == [op |-> "state", invariant |-> invariant, costrate |-> EmptyExpr]
    IN  {State(e) : e \in Invariants \cup {EmptyExpr}
                          \cup OverRate(Node("EQ", <<Node("RATE", <<Ident("cost")>>), Const(1)>>))}

---------------------------------------------------------------------------
(* The elements of a system handed to the visit: declarations with their   *)
(* types and initialisers, as the builder made them.                       *)

MaxLen == 3

\* A list { e1, ..., ek }, its fields named as given ("" for a positional one).
List(names, elems) == createNary("LIST", elems, createListType(names))

VariableTasks ==
    LET RangeEnds ==
            {RConst(v) : v \in 0..MaxVal} \cup {RIdent("n"), RIdent("p"), RIdent("i"), RIdent("c")}
        RangeTypes ==
            {createInteger(l, u) : l \in RangeEnds, u \in RangeEnds}
            \cup {createScalarSet(l, u, 3) : l \in RangeEnds, u \in RangeEnds}
        DeclaredTypes ==
            RangeTypes
            \cup {createArray(Prim("INT"), t) : t \in RangeTypes}
            \cup {createArray(Prim("INT"), Prim("CLOCK")), createRecord(1), createRecord(4),
                  createArray(createRecord(4), IntRange)}
        ArrayTypes ==
            {createArray(e, createInteger(RConst(l), u)) :
                e \in {Prim("INT"), IntRange}, l \in {0, 1},
                u \in {RConst(v) : v \in 0..MaxVal} \cup {RIdent("n"), RIdent("p")}}
            \cup {SymType("sa")}
        ElemExprs == {Const(1), Const(MaxVal + 1), Ident("n"), List(<<"">>, <<Const(1)>>)}
        FieldNames == {"", "a", "b", "z"}
        \* The positional lists of at most MaxLen elements.
        PositionalInits ==
            UNION {{List([k \in 1..m |-> ""], es) : es \in [1..m -> ElemExprs]} : m \in 0..MaxLen}
        \* The k-th element of a list with names is the literal k - 1.
        NamedInits ==
            UNION {{List(ns, [k \in 1..m |-> Const(k - 1)]) : ns \in [1..m -> FieldNames]} :
                      m \in 1..MaxLen}
        RecordInits ==
            {List(<<"", "">>, <<Const(1), Const(2)>>), List(<<"b", "a">>, <<Const(2), Const(1)>>),
             List(<<"a">>, <<Const(1)>>), Const(1)}
        RecordArrayInits ==
            UNION {{List([k \in 1..m |-> ""], es) : es \in [1..m -> RecordInits]} : m \in 0..2}
        ScalarTypes ==
            {Prim("INT"), IntRange, setPrefix(Prim("INT"), "CONSTANT"),
             setPrefix(IntRange, "CONSTANT"), createInteger(RConst(0), RIdent("p")),
             createInteger(RConst(0), RIdent("n")), Prim("BOOL"), Prim("CLOCK"), SymType("x")}
        ScalarInits ==
            Literals
            \cup {Ident(s) : s \in {"n", "p", "i", "b", "c", "r"}}
            \cup {Node("PLUS", <<Ident("n"), Const(1)>>), Node("PLUS", <<Ident("c"), Const(1)>>),
                  Node("ASSIGN", <<Ident("i"), Const(1)>>), Node("PLUS", <<Ident("p"), Const(1)>>),
                  List(<<"">>, <<Const(1)>>)}
        Variable(type, expr) == [op |-> "variable", name |-> "v", type |-> type, expr |-> expr]
    IN  {Variable(t, EmptyExpr) : t \in DeclaredTypes}
        \cup {Variable(t, e) : t \in ArrayTypes, e \in PositionalInits \cup NamedInits}
        \cup {Variable(createRecord(1), e) :
                e \in PositionalInits \cup NamedInits \cup RecordInits \cup {Ident("r")}}
        \cup {Variable(createArray(createRecord(1), createInteger(RConst(0), RConst(h))), e) :
                h \in {0, 1}, e \in RecordArrayInits}
        \cup {Variable(t, e) : t \in ScalarTypes, e \in ScalarInits}

---------------------------------------------------------------------------
(* Instantiations and the statements of function bodies. *)

Actuals ==
    {Ident(s) : s \in {"ch", "uch", "bch", "ubch", "cha", "ucha", "bcha",
                       "i", "j", "q", "e", "n", "b", "c", "r", "a", "an", "sa"}}
    \cup Literals
    \cup {Node("ARRAY", <<Ident("cha"), Const(0)>>), Node("ARRAY", <<Ident("ucha"), Ident("i")>>),
          Node("ARRAY", <<Ident("a"), Ident("p")>>),
          Node("PLUS", <<Ident("n"), Const(1)>>), Node("ASSIGN", <<Ident("i"), Const(1)>>),
          Node("PLUS", <<Ident("c"), Ident("c")>>),
          Node("ASSPLUS", <<Ident("n"), Const(1)>>),
          Node("COMMA", <<Node("PLUS", <<Ident("c"), Ident("c")>>),
                          Node("MINUS", <<Ident("b"), Ident("c")>>)>>)}

\* T(formal) instantiated with one argument, and T(const int p, formal over p)
\* instantiated with two.
InstanceTasks ==
    LET Channels ==
            {Prim("CHANNEL"), setPrefix(Prim("CHANNEL"), "URGENT"),
             setPrefix(Prim("CHANNEL"), "BROADCAST"),
             setPrefix(setPrefix(Prim("CHANNEL"), "URGENT"), "BROADCAST")}
        ChannelFormals ==
            Channels
            \cup {setPrefix(t, "REFERENCE") : t \in Channels}
            \cup {setPrefix(createArray(t, IntRange), "REFERENCE") : t \in Channels}
        ValueFormals ==
            {Prim("INT"), IntRange, Prim("BOOL"),
             setPrefix(IntRange, "REFERENCE"),
             setPrefix(setPrefix(IntRange, "REFERENCE"), "CONSTANT"),
             setPrefix(createInteger(RConst(1), RConst(MaxVal + 1)), "REFERENCE"),
             setPrefix(setPrefix(createInteger(RConst(0), RIdent("n")), "REFERENCE"),
                       "CONSTANT"),
             setPrefix(setPrefix(createInteger(RConst(0), RConst(MaxVal + 1)), "REFERENCE"),
                       "CONSTANT"),
             createInteger(RConst(MaxVal + 1), RConst(MaxVal + 1)),
             setPrefix(createInteger(RConst(1), RConst(0)), "REFERENCE"),
             setPrefix(createInteger(RConst(0), RIdent("p")), "REFERENCE"),
             setPrefix(createInteger(RConst(0), RIdent("n")), "REFERENCE"),
             createInteger(RConst(0), RIdent("p")),
             setPrefix(Prim("CLOCK"), "REFERENCE"),
             setPrefix(createRecord(1), "REFERENCE"),
             setPrefix(createRecord(3), "REFERENCE")}
            \cup {setPrefix(createArray(Prim("INT"), size), "REFERENCE") :
                     size \in {IntRange, createInteger(RConst(0), RConst(1)),
                               createInteger(RConst(0), RIdent("n")),
                               createScalarSet(RConst(0), RConst(MaxVal), 1),
                               createScalarSet(RConst(0), RConst(MaxVal), 2)}}
        Parameter(sym, type, arg) == [sym |-> sym, type |-> type, arg |-> arg]
        Instance(mapping) == [op |-> "instance", mapping |-> mapping]
    IN  {Instance(<<Parameter("p1", t, e)>>) : t \in ChannelFormals \cup ValueFormals, e \in Actuals}
        \cup {Instance(<<Parameter("p", setPrefix(Prim("INT"), "CONSTANT"), v),
                         Parameter("p1", t, e)>>) :
                v \in {Const(1), Const(MaxVal), Ident("i")},
                t \in {createInteger(RConst(0), RIdent("p")),
                       setPrefix(createInteger(RConst(0), RIdent("p")), "REFERENCE")},
                e \in {Ident("i"), Ident("j"), Ident("q"), Const(MaxVal), Ident("c")}}

StatementTasks ==
    LET Statement(expr) == [op |-> "statement", expr |-> expr]
    IN  {Statement(Call(Ident(g), <<e>>)) : g \in {"fc", "fu", "fb", "f", "fr"}, e \in Actuals}
        \cup {Statement(Node("ARRAY", <<Ident("a"), e>>)) : e \in Actuals}
        \cup {Statement(Call(Ident("fc"), << >>)), Statement(Ident("cha"))}

\* A declaration group handed to an entry point, with what the builder phase
\* left: the errors it reported and, for the XML entry points, its return
\* code.  The group declares the constant n and a variable whose type or
\* initialiser uses n, in either order.
SystemTasks ==
    LET Declaration(name, type, expr) == [name |-> name, type |-> type, expr |-> expr]
        Constants ==
            {Declaration("n", setPrefix(Prim("INT"), "CONSTANT"), e) :
                e \in {Const(1), Ident("c")}}
        OverN == createInteger(RConst(0), RIdent("n"))
        Users ==
            {Declaration("v", OverN, e) : e \in {EmptyExpr, Const(1), Const(MaxVal), Ident("n")}}
            \cup {Declaration("v", createArray(Prim("INT"), OverN), e) :
                     e \in {EmptyExpr, List(<<"", "">>, <<Const(0), Const(1)>>),
                            List(<<"">>, <<Const(0)>>)}}
            \cup {Declaration("v", Prim("INT"), e) :
                     e \in {Node("ARRAY", <<Ident("a"), Ident("n")>>), Ident("n")}}
        Groups ==
            {<<d>> : d \in Constants \cup Users}
            \cup {<<d, u>> : d \in Constants, u \in Users}
            \cup {<<u, d>> : d \in Constants, u \in Users}
        \* A return code other than 0 comes with an error in the sink.
        Built ==
            {[errs |-> << >>, err |-> 0]}
            \cup {[errs |-> <<Err(<< >>, "syntax error")>>, err |-> r] : r \in {0, 0 - 1}}
        Entries == {"parseXTA(FILE)", "parseXTA(buffer)", "parseXMLBuffer", "parseXMLFile"}
        ParseTasks ==
            {[op |-> "parse", entry |-> f, built |-> b, decls |-> g] :
                f \in Entries, b \in Built, g \in Groups}
        \* The blocks of function bodies: a frame of local variables and
        \* parameters (data: the symbol has a variable_t) and the statements.
        Local(type, expr) == [type |-> type, expr |-> expr, data |-> TRUE]
        Locals ==
            {Local(IntRange, e) :
                e \in {EmptyExpr, Const(1), Const(MaxVal + 1), Ident("c"),
                       Node("PLUS", <<Ident("c"), Ident("c")>>)}}
            \cup {Local(createArray(Prim("INT"), createInteger(RConst(0), RConst(1))), e) :
                     e \in {List(<<"", "">>, <<Const(0), Const(1)>>), List(<<"">>, <<Const(0)>>)}}
            \cup {Local(createRecord(1), e) :
                     e \in {List(<<"a", "b">>, <<Const(0), Const(1)>>),
                            List(<<"z">>, <<Const(0)>>)}}
            \cup {[type |-> createInteger(RConst(1), RConst(0)), expr |-> EmptyExpr,
                    data |-> FALSE]}
        Bodies ==
            {<< >>, <<Node("ASSIGN", <<Ident("i"), Const(1)>>)>>, <<Ident("cha")>>,
             <<Node("PLUS", <<Ident("c"), Ident("c")>>)>>}
        BlockTasks ==
            {[op |-> "block", frame |-> f, stats |-> b] :
                f \in {<<l>> : l \in Locals} \cup {<<l, m>> : l \in Locals, m \in Locals},
                b \in Bodies}
        \* The edges: the types of the select symbols, the guard, the
        \* synchronisation (value: 0 for SYNC_QUE, 1 for SYNC_BANG) and the
        \* assignment, which the builder makes the constant 1 if none is given.
        Sync(channel, direction) == [Node("SYNC", <<channel>>) EXCEPT !.value = direction]
        Guards ==
            {EmptyExpr, Ident("b"), Node("LE", <<Ident("c"), Const(1)>>),
             Node("EQ", <<Ident("i"), Const(1)>>), Node("PLUS", <<Ident("c"), Ident("c")>>),
             Node("NEQ", <<Ident("c"), Const(1)>>)}
        Syncs ==
            {Sync(e, d) :
                e \in {Ident("ch"), Ident("uch"), Ident("bch"), Ident("ubch"), Ident("i"),
                       Node("ARRAY", <<Ident("ucha"), Const(0)>>),
                       Node("ARRAY", <<Ident("bcha"), Node("ASSIGN", <<Ident("i"), Const(1)>>)>>)},
                d \in {0, 1}}
            \cup {EmptyExpr}
        EdgeTasks ==
            {[op |-> "edge", select |-> s, guard |-> g, sync |-> y, assign |-> u] :
                s \in {<< >>, <<IntRange>>, <<createInteger(RConst(1), RConst(0))>>},
                g \in Guards, y \in Syncs,
                u \in {Const(1), Node("ASSIGN", <<Ident("i"), Const(1)>>), Ident("cha")}}
    IN  VariableTasks \cup StateTasks \cup InstanceTasks \cup StatementTasks \cup ParseTasks
        \cup BlockTasks \cup EdgeTasks

---------------------------------------------------------------------------
(* The visit of a system by the type checker, one element at a time.  The  *)
(* visit can be made a second time, on the element as the first visit left *)
(* it: out.elem is the element after the last visit, out.prev the element  *)
(* before it, out.before the number of errors reported before it.          *)

InitAnalyzer ==
    /\ symbols = GlobalSymbols
    /\ task \in SystemTasks
    /\ pc = "ready"
    /\ out = NoOutput
    /\ errors = << >>
    /\ valuation = IF task.op = "parse" THEN << >> ELSE GlobalValuation

Current == IF pc = "ready" THEN task ELSE out.elem

NextVisit == IF pc = "ready" THEN "done" ELSE "again"

\* A visit that enters nothing in the valuation.
withConstantNever(val, name, expr) == val

\* Line 337: the constant valuation with the initialiser of a constant.
withConstant(val, name, expr) ==
    [s \in DOMAIN val \cup {name} |-> IF s = name THEN expr ELSE val[s]]

\* Lines 310-339: checkVariableDeclaration and visitVariable.
visitVariable ==
    /\ pc \in {"ready", "done"}
    /\ task.op = "variable"
    /\ LET variable == Current
           declared(typeErrs, c) ==
               /\ out' = [op |-> "variable", elem |-> [variable EXCEPT !.expr = c.expr],
                          prev |-> variable, before |-> Len(errors), returned |-> c.returned]
               /\ errors' = errors \o typeErrs \o c.errs
               /\ valuation' = IF hasPrefix(variable.type, "CONSTANT")
                               THEN withConstant(valuation, variable.name, c.expr)
                               ELSE valuation
       IN  declared(checkType(valuation, variable.type, FALSE, << >>),
                    checkVariableInitialiser(valuation, variable.type,
                        annotate(valuation, variable.expr, << >>), << >>))
    /\ pc' = NextVisit
    /\ UNCHANGED <<task, symbols>>

\* Lines 389-417.  A failed assertion of the decomposer ends the run, the
\* invariant annotated and the location otherwise as it was.
visitState ==
    /\ pc \in {"ready", "done"}
    /\ task.op = "state"
    /\ LET state == Current
           \* Lines 393-415, a the invariant as annotate left it.
           checked(a, decomposer) ==
               LET errs1 == IF a.ok /\ ~isInvariantWR(a.e)
                            THEN Append(a.errs, Err(<< >>, "Invalid invariant expression"))
                            ELSE a.errs
                   errs2 == IF a.ok /\ ~isSideEffectFree(a.e)
                            THEN Append(errs1, Err(<< >>, "Invariant must be side effect free"))
                            ELSE errs1
                   visited == [state EXCEPT
                                  !.invariant = decomposer.invariant,
                                  !.costrate = IF decomposer.rate # << >>
                                               THEN decomposer.rate[1][2] ELSE @]
               IN  IF decomposer.failed
                   THEN /\ out' = [op |-> "state", elem |-> [state EXCEPT !.invariant = a.e],
                                   prev |-> state, before |-> Len(errors), rate |-> << >>]
                        /\ pc' = "aborted"
                        /\ errors' = errors \o errs2
                   ELSE /\ out' = [op |-> "state", elem |-> visited, prev |-> state,
                                   before |-> Len(errors), rate |-> decomposer.rate]
                        /\ pc' = NextVisit
                        /\ errors' = errors \o errs2
           annotated(a) == checked(a, decompose(RateDecomposer, a.e))
       IN  IF state.invariant.kind = "EMPTY"
           THEN /\ out' = [op |-> "state", elem |-> state, prev |-> state,
                           before |-> Len(errors), rate |-> << >>]
                /\ pc' = NextVisit
                /\ UNCHANGED errors
           ELSE annotated(annotate(valuation, state.invariant, << >>))
    /\ UNCHANGED <<task, valuation, symbols>>

\* Interpreter::addValuation with the mapping of an instance.
addValuation(val, mapping) ==
    LET syms == {mapping[k].sym : k \in 1..Len(mapping)}
    IN  [s \in DOMAIN val \cup syms |->
            IF s \in syms
            THEN mapping[CHOOSE k \in 1..Len(mapping) : mapping[k].sym = s].arg
            ELSE val[s]]

\* checkArgument accepting every argument of a constant reference parameter,
\* computable or not.
checkArgumentConstantReference(interpreter, parameter, a, pos) ==
    LET ref == hasPrefix(parameter, "REFERENCE")
        constant == hasPrefix(parameter, "CONSTANT")
        computable == ~dependsOn(a.e, persistentVariables)
    IN  IF ~a.ok THEN [arg |-> a.e, errs |-> a.errs, reached |-> FALSE]
        ELSE IF ~isSideEffectFree(a.e)
        THEN [arg |-> a.e, reached |-> FALSE,
              errs |-> Append(a.errs, Err(pos, "Argument must be side effect free"))]
        ELSE IF /\ ~(ref /\ constant)
                /\ ~(IF ref THEN isUniqueReference(a.e) ELSE computable)
        THEN [arg |-> a.e, reached |-> FALSE,
              errs |-> Append(a.errs, Err(pos, "Incompatible argument"))]
        ELSE [arg |-> a.e, reached |-> TRUE,
              errs |-> a.errs \o checkParameterCompatible(interpreter, parameter, a.e, pos)]

\* Lines 540-571: one argument of an instance, a the argument as annotate
\* left it.  The result is the argument, the errors reported and whether
\* checkParameterCompatible was reached.
checkArgument(interpreter, parameter, a, pos) ==
    LET ref == hasPrefix(parameter, "REFERENCE")
        constant == hasPrefix(parameter, "CONSTANT")
        computable == ~dependsOn(a.e, persistentVariables)
    IN  IF ~a.ok THEN [arg |-> a.e, errs |-> a.errs, reached |-> FALSE]
        ELSE IF ~isSideEffectFree(a.e)
        THEN [arg |-> a.e, reached |-> FALSE,
              errs |-> Append(a.errs, Err(pos, "Argument must be side effect free"))]
        ELSE IF /\ ~(ref /\ constant /\ computable)
                /\ ~(IF ref THEN isUniqueReference(a.e) ELSE computable)
        THEN [arg |-> a.e, reached |-> FALSE,
              errs |-> Append(a.errs, Err(pos, "Incompatible argument"))]
        ELSE [arg |-> a.e, reached |-> TRUE,
              errs |-> a.errs \o checkParameterCompatible(interpreter, parameter, a.e, pos)]

\* Lines 528-573.
visitInstance ==
    /\ pc \in {"ready", "done"}
    /\ task.op = "instance"
    /\ LET instance == Current
           interpreter == addValuation(valuation, instance.mapping)
           instantiated(checked) ==
               /\ out' = [op |-> "instance",
                          elem |-> [instance EXCEPT !.mapping =
                                       [k \in 1..Len(instance.mapping) |->
                                           [instance.mapping[k] EXCEPT !.arg = checked[k].arg]]],
                          prev |-> instance, before |-> Len(errors),
                          reached |-> [k \in 1..Len(checked) |-> checked[k].reached]]
               /\ errors' = errors \o SeqConcat([k \in 1..Len(checked) |-> checked[k].errs])
       IN  instantiated([k \in 1..Len(instance.mapping) |->
                            checkArgument(interpreter, instance.mapping[k].type,
                                annotate(valuation, instance.mapping[k].arg, <<k - 1>>),
                                <<k - 1>>)])
    /\ pc' = NextVisit
    /\ UNCHANGED <<task, valuation, symbols>>

\* Lines 594-600.
checkAssignmentExpressionInFunction(expr, pos) ==
    IF ~isValue(expr) /\ ~isClock(expr) /\ ~isRecord(expr) /\ ~isVoid(expr) /\ ~isScalar(expr)
    THEN <<Err(pos, "Invalid expression in function")>>
    ELSE << >>

\* Lines 640-647.
visitExprStatement ==
    /\ pc \in {"ready", "done"}
    /\ task.op = "statement"
    /\ LET stat == Current
           checked(a) ==
               /\ out' = [op |-> "statement", elem |-> [stat EXCEPT !.expr = a.e],
                          prev |-> stat, before |-> Len(errors)]
               /\ errors' = errors \o a.errs \o
                            (IF a.ok THEN checkAssignmentExpressionInFunction(a.e, << >>)
                             ELSE << >>)
       IN  checked(annotate(valuation, stat.expr, << >>))
    /\ pc' = NextVisit
    /\ UNCHANGED <<task, valuation, symbols>>

\* clockGuardError without the test of the direction of the synchronisation.
clockGuardErrorAnyDirection(channel, sync, hasClockGuard, pos) ==
    IF hasPrefix(channel, "URGENT") /\ hasClockGuard
    THEN <<Err(pos, "Clock guards are not allowed on urgent edges")>>
    ELSE IF hasPrefix(channel, "BROADCAST") /\ hasClockGuard
    THEN <<Err(pos, "Clock guards are not allowed on broadcast receivers")>>
    ELSE << >>

\* Lines 466-482: sync is the annotated synchronisation, channel the type of
\* its operand.
clockGuardError(channel, sync, hasClockGuard, pos) ==
    LET isUrgent == hasPrefix(channel, "URGENT")
        receivesBroadcast == hasPrefix(channel, "BROADCAST") /\ sync.value = 0
    IN  IF isUrgent /\ hasClockGuard
        THEN <<Err(pos, "Clock guards are not allowed on urgent edges")>>
        ELSE IF receivesBroadcast /\ hasClockGuard
        THEN <<Err(pos, "Clock guards are not allowed on broadcast receivers")>>
        ELSE << >>

\* Lines 419-507.  The parts of the edge are at the positions 0 (guard),
\* 1 (synchronisation) and 2 (assignment), the select symbols after them.
\* Warnings do not go to the errors and are left out.
visitEdge ==
    /\ pc \in {"ready", "done"}
    /\ task.op = "edge"
    /\ LET edge == Current
           \* Lines 431-444.
           guardErrors(guard) ==
               IF edge.guard.kind = "EMPTY" \/ ~guard.ok THEN guard.errs
               ELSE IF ~isGuard(guard.e)
               THEN Append(guard.errs, Err(<<0>>, "Invalid guard"))
               ELSE IF ~isSideEffectFree(guard.e)
               THEN Append(guard.errs, Err(<<0>>, "Guard must be side effect free"))
               ELSE guard.errs
           \* Lines 447-484.
           syncErrors(guard, sync) ==
               IF edge.sync.kind = "EMPTY" THEN << >>
               ELSE IF ~sync.ok THEN sync.errs
               ELSE IF Arg(sync.e, 0).type.base # "CHANNEL"
               THEN Append(sync.errs, Err(<<1, 0>>, "Channel expected"))
               ELSE IF ~isSideEffectFree(sync.e)
               THEN Append(sync.errs, Err(<<1>>, "Synchronisation must be side effect free"))
               ELSE sync.errs \o
                    clockGuardError(Arg(sync.e, 0).type, sync.e,
                                    edge.guard.kind # "EMPTY" /\ ~isValue(guard.e), <<1>>)
           \* Lines 487-497.
           assignErrors(assign) ==
               IF ~assign.ok THEN assign.errs
               ELSE IF /\ ~isValue(assign.e) /\ ~isScalar(assign.e) /\ ~isClock(assign.e)
                       /\ ~isRecord(assign.e) /\ ~isCost(assign.e) /\ ~isVoid(assign.e)
               THEN Append(assign.errs, Err(<<2>>, "Invalid assignment expression"))
               ELSE assign.errs
           \* a: the guard, the synchronisation and the assignment as annotate
           \* left them.
           visited(selectErrs, a) ==
               /\ out' = [op |-> "edge",
                          elem |-> [edge EXCEPT !.guard = a[1].e, !.sync = a[2].e,
                                                !.assign = a[3].e],
                          prev |-> edge, before |-> Len(errors)]
               /\ errors' = errors \o selectErrs \o guardErrors(a[1])
                                   \o syncErrors(a[1], a[2]) \o assignErrors(a[3])
       IN  visited(SeqConcat([k \in 1..Len(edge.select) |->
                                 checkType(valuation, edge.select[k], FALSE, <<2 + k>>)]),
                   [k \in 1..3 |->
                       annotate(valuation,
                                CASE k = 1 -> edge.guard [] k = 2 -> edge.sync
                                  [] OTHER -> edge.assign,
                                <<k - 1>>)])
    /\ pc' = NextVisit
    /\ UNCHANGED <<task, valuation, symbols>>

\* Lines 693-723.  An InitialiserException thrown by checkInitialiser is not
\* caught in the visitor: it ends the visit (pc "thrown"), the frame as far
\* as it was checked.
visitBlockStatement ==
    /\ pc \in {"ready", "done"}
    /\ task.op = "block"
    /\ LET stat == Current
           \* Lines 700-713: the loop over the frame, from symbol i (counted
           \* from 1) on; st is [frame, errs, thrown].  For symbol i,
           \* typeErrs[i] are the errors of checkType, a[i] is the initialiser
           \* as annotate left it and c[i] the outcome of checkInitialiser.
           RECURSIVE locals(_, _, _, _, _)
           locals(st, i, typeErrs, a, c) ==
               IF i > Len(stat.frame) \/ st.thrown THEN st
               ELSE IF ~stat.frame[i].data \/ stat.frame[i].expr.kind = "EMPTY"
               THEN locals([st EXCEPT !.errs = @ \o typeErrs[i]], i + 1, typeErrs, a, c)
               ELSE IF c[i].thrown
               THEN [frame |-> [st.frame EXCEPT ![i].expr = a[i].e],
                     errs |-> st.errs \o typeErrs[i] \o a[i].errs \o c[i].errs,
                     thrown |-> TRUE]
               ELSE locals([frame |-> [st.frame EXCEPT ![i].expr = c[i].e],
                            errs |-> st.errs \o typeErrs[i] \o a[i].errs \o c[i].errs,
                            thrown |-> FALSE],
                           i + 1, typeErrs, a, c)
           \* Lines 640-647: the statements, a[k] statement k as annotate left it.
           statements(a) ==
               [stats |-> [k \in 1..Len(a) |-> a[k].e],
                errs |-> SeqConcat([k \in 1..Len(a) |->
                            a[k].errs \o
                            (IF a[k].ok
                             THEN checkAssignmentExpressionInFunction(a[k].e,
                                      <<Len(stat.frame) + k - 1>>)
                             ELSE << >>)])]
           visited(frame, body) ==
               IF frame.thrown
               THEN /\ out' = [op |-> "block", elem |-> [stat EXCEPT !.frame = frame.frame],
                               prev |-> stat, before |-> Len(errors)]
                    /\ errors' = errors \o frame.errs
                    /\ pc' = "thrown"
               ELSE /\ out' = [op |-> "block",
                               elem |-> [stat EXCEPT !.frame = frame.frame,
                                                     !.stats = body.stats],
                               prev |-> stat, before |-> Len(errors)]
                    /\ errors' = errors \o frame.errs \o body.errs
                    /\ pc' = NextVisit
       IN  visited(locals([frame |-> stat.frame, errs |-> << >>, thrown |-> FALSE], 1,
                       [i \in 1..Len(stat.frame) |->
                           checkType(valuation, stat.frame[i].type, FALSE, <<i - 1>>)],
                       [i \in 1..Len(stat.frame) |->
                           annotate(valuation, stat.frame[i].expr, <<i - 1>>)],
                       [i \in 1..Len(stat.frame) |->
                           checkInitialiser(valuation, stat.frame[i].type,
                               annotate(valuation, stat.frame[i].expr, <<i - 1>>).e,
                               <<i - 1>>)]),
                   statements([k \in 1..Len(stat.stats) |->
                       annotate(valuation, stat.stats[k], <<Len(stat.frame) + k - 1>>)]))
    /\ UNCHANGED <<task, valuation, symbols>>

---------------------------------------------------------------------------
(* The entry points of the library.  The builder phase and the traversal   *)
(* of the system are not part of typechecker.cpp: the builder phase is an  *)
(* input of the task, and the traversal calls visitVariable on the         *)
(* declarations of the group in source order.                              *)

\* system->accept(checker) on a declaration group.  st is the state of the
\* visit [val, errs, visits]; a visit records the constants known when the
\* declaration was reached and what visitVariable did with it.
RECURSIVE accept(_, _, _)
accept(st, decls, i) ==
    IF i > Len(decls) THEN st
    ELSE LET variable == decls[i]
             \* Lines 310-339.
             declared(typeErrs, c) ==
                 [val |-> IF hasPrefix(variable.type, "CONSTANT")
                          THEN withConstant(st.val, variable.name, c.expr)
                          ELSE st.val,
                  errs |-> st.errs \o typeErrs \o c.errs,
                  visits |-> Append(st.visits,
                                 [name |-> variable.name, known |-> DOMAIN st.val,
                                  typeErrs |-> typeErrs, errs |-> c.errs,
                                  expr |-> c.expr, returned |-> c.returned])]
         IN  accept(declared(checkType(st.val, variable.type, FALSE, <<i - 1>>),
                             checkVariableInitialiser(st.val, variable.type,
                                 annotate(st.val, variable.expr, <<i - 1>>), <<i - 1>>)),
                    decls, i + 1)

\* Lines 1989-2052: the four entry points.  xml: the entry point returns an
\* int32_t, the return code of the builder phase or 0.
parse(xml) ==
    /\ pc = "ready"
    /\ task.op = "parse"
    /\ LET notChecked == [val |-> valuation, errs |-> << >>, visits |-> << >>]
           returned(checked, checker) ==
               /\ errors' = errors \o task.built.errs \o checker.errs
               /\ valuation' = checker.val
               /\ out' = [op |-> "parse", checked |-> checked, visits |-> checker.visits,
                          returned |-> IF xml THEN 0
                                       ELSE errors \o task.built.errs \o checker.errs = << >>]
       IN  IF xml /\ task.built.err # 0
           THEN /\ errors' = errors \o task.built.errs
                /\ out' = [op |-> "parse", checked |-> FALSE, visits |-> << >>,
                           returned |-> task.built.err]
                /\ UNCHANGED valuation
           ELSE IF errors \o task.built.errs # << >>
           THEN returned(FALSE, notChecked)
           ELSE returned(TRUE, accept(notChecked, task.decls, 1))
    /\ pc' = "done"
    /\ UNCHANGED <<task, symbols>>

\* Lines 1989-2011.
parseXTA ==
    /\ task.op = "parse"
    /\ task.entry \in {"parseXTA(FILE)", "parseXTA(buffer)"}
    /\ parse(FALSE)

\* Lines 2013-2052.
parseXML ==
    /\ task.op = "parse"
    /\ task.entry \in {"parseXMLBuffer", "parseXMLFile"}
    /\ parse(TRUE)

NextAnalyzer ==
    \/ visitVariable
    \/ visitState
    \/ visitInstance
    \/ visitExprStatement
    \/ visitBlockStatement
    \/ visitEdge
    \/ parseXTA
    \/ parseXML

SpecAnalyzer == InitAnalyzer /\ [][NextAnalyzer]_vars


---------------------------------------------------------------------------
(* Initialisers after the first visit of a variable. *)

VisitedOnce(op) == pc = "done" /\ task.op = op

\* The initialiser as annotated, before it is checked against the type.
AnnotatedInitialiser == annotate(GlobalValuation, task.expr, << >>).e

\* C4: when checkInitialiser(T, E) returns for an array type T with integer
\* index range [lo, hi], the expression returned is a LIST of exactly
\* hi - lo + 1 elements, none of them named, its element i being the checked
\* form of element i of E.
C4_ArrayNormalized ==
    (/\ VisitedOnce("variable")
     /\ task.type.base = "ARRAY"
     /\ typeIsInteger(task.type.size)
     /\ out.returned) =>
        LET lo == evaluate(AsExpr(task.type.size.lo), GlobalValuation)
            hi == evaluate(AsExpr(task.type.size.hi), GlobalValuation)
            E == AnnotatedInitialiser
            R == out.elem.expr
        IN  /\ lo.ok /\ hi.ok
            /\ R.kind = "LIST"
            /\ Len(R.sub) = hi.v - lo.v + 1
            /\ R.type.names = << >>
            /\ \A k \in 1..Len(R.sub) :
                  /\ k <= Len(E.sub)
                  /\ E.type.names[k] = ""
                  /\ R.sub[k] = checkInitialiser(GlobalValuation, task.type.sub,
                                                 E.sub[k], <<k - 1>>).e

\* int v[1..2] = { e1, e2 } accepted: two elements for the range [1, 2].
C4_Witness ==
    /\ VisitedOnce("variable")
    /\ task.type.base = "ARRAY"
    /\ task.type.size.lo = RConst(1)
    /\ task.type.size.hi = RConst(2)
    /\ out.returned
    /\ Len(out.elem.expr.sub) = 2
    /\ out.elem.expr.type = task.type

\* The field (counted from 0) the k-th element of a list is given for: the
\* field of its name, or the field after the one of the element before it.
RECURSIVE GivenFor(_, _, _)
GivenFor(names, fields, k) ==
    IF names[k] # ""
    THEN IF \E j \in 1..Len(fields) : fields[j].name = names[k]
         THEN (CHOOSE j \in 1..Len(fields) : fields[j].name = names[k]) - 1
         ELSE 0 - 1
    ELSE IF k = 1 THEN 0
    ELSE GivenFor(names, fields, k - 1) + 1

\* C5: when checkInitialiser returns a rewritten LIST for a record type with
\* n declared fields, the list has exactly n non-empty entries, and entry i
\* is the initialiser given, by name or by position, for the i-th declared
\* field, taken once: the first one given for it.
C5_RecordNormalized ==
    (/\ VisitedOnce("variable")
     /\ task.type.base = "RECORD"
     /\ task.expr.kind = "LIST"
     /\ out.returned) =>
        LET fields == Frame(task.type.id)
            names == task.expr.type.names
            E == AnnotatedInitialiser
            R == out.elem.expr
        IN  /\ R.kind = "LIST"
            /\ Len(R.sub) = Len(fields)
            /\ \A i \in 1..Len(fields) :
                  /\ R.sub[i].kind # "EMPTY"
                  /\ \E k \in 1..Len(names) :
                        /\ GivenFor(names, fields, k) = i - 1
                        /\ \A j \in 1..(k - 1) : GivenFor(names, fields, j) # i - 1
                        /\ R.sub[i] = E.sub[k]

\* struct { int a; int b; } v = { b = 2, a = 1 } yields [1, 2].
C5_Witness ==
    /\ VisitedOnce("variable")
    /\ task.type = createRecord(1)
    /\ task.expr = List(<<"b", "a">>, <<Const(2), Const(1)>>)
    /\ out.returned
    /\ out.elem.expr.sub = <<Const(1), Const(2)>>
    /\ errors = << >>


---------------------------------------------------------------------------
(* Invariants after the first visit of a location. *)

\* The conjuncts of an expression, left to right.
RECURSIVE ConjunctsOf(_)
ConjunctsOf(e) ==
    IF e.kind = "EMPTY" THEN << >>
    ELSE IF e.kind = "AND" THEN ConjunctsOf(Arg(e, 0)) \o ConjunctsOf(Arg(e, 1))
    ELSE <<e>>

IsRateEquality(e) == e.kind = "EQ" /\ (Arg(e, 0).kind = "RATE" \/ Arg(e, 1).kind = "RATE")

IsNoRateEquality(e) == ~IsRateEquality(e)

\* e is rate(x) == r or r == rate(x).
IsRateOf(e, x, r) ==
    /\ e.kind = "EQ"
    /\ \/ Arg(e, 0).kind = "RATE" /\ Arg(Arg(e, 0), 0) = x /\ Arg(e, 1) = r
       \/ Arg(e, 1).kind = "RATE" /\ Arg(Arg(e, 1), 0) = x /\ Arg(e, 0) = r

AcceptedInvariant ==
    /\ VisitedOnce("state")
    /\ errors = << >>
    /\ task.invariant.kind # "EMPTY"

\* C6: for a location invariant accepted as invariant-or-rate, decompose
\* yields a residual invariant I and pairs (x_i, r_i) such that the conjuncts
\* of the original expression are exactly the conjuncts of I, in left to
\* right order, together with one equality rate(x_i) == r_i per pair.
C6_SplitPreservesConjuncts ==
    AcceptedInvariant =>
        LET original == ConjunctsOf(annotate(GlobalValuation, task.invariant, << >>).e)
            equalities == SelectSeq(original, IsRateEquality)
        IN  /\ ConjunctsOf(out.elem.invariant) = SelectSeq(original, IsNoRateEquality)
            /\ Len(out.rate) = Len(equalities)
            /\ \A k \in 1..Len(equalities) :
                  IsRateOf(equalities[k], out.rate[k][1], out.rate[k][2])

\* (p1 && r == rate(cost)) && p2 and the like: two pure conjuncts around a
\* rate written with the rate on the right.
C6_Witness ==
    /\ AcceptedInvariant
    /\ Len(out.rate) = 1
    /\ out.rate[1][2].kind = "CONSTANT"
    /\ out.rate[1][1] = Ident("cost")
    /\ task.invariant.kind = "AND"
    /\ Arg(task.invariant, 0).kind = "AND"
    /\ Arg(Arg(task.invariant, 0), 1).kind = "EQ"
    /\ Arg(Arg(Arg(task.invariant, 0), 1), 1).kind = "RATE"
    /\ out.elem.invariant.kind = "AND"
    /\ Arg(out.elem.invariant, 0) # Arg(out.elem.invariant, 1)

---------------------------------------------------------------------------
(* The second visit. *)

\* C7: a second visit of an element that the first visit analysed without
\* error reports no error and leaves the element (annotations, location
\* invariant, cost rate, initialiser) exactly as the first visit left it.
C7_SecondVisitChangesNothing ==
    (pc = "again" /\ out.before = 0) => (errors = << >> /\ out.elem = out.prev)


---------------------------------------------------------------------------
(* Channel parameters. *)

\* The capability of a channel type: 0 for an urgent channel, 1 for a
\* broadcast channel that is not urgent, 2 for any other.
Capability(t) ==
    IF "URGENT" \in t.pre THEN 0
    ELSE IF "BROADCAST" \in t.pre THEN 1
    ELSE 2

\* The formal and the actual type below their array layers.
RECURSIVE Peeled(_, _)
Peeled(formal, actual) ==
    IF formal.base = "ARRAY" /\ actual.base = "ARRAY"
    THEN Peeled(formal.sub, actual.sub)
    ELSE [formal |-> formal, actual |-> actual]

CapabilityKept(formal, actual) ==
    LET t == Peeled(formal, actual)
    IN  t.formal.base = "CHANNEL" =>
            (t.actual.base = "CHANNEL" /\ Capability(t.actual) >= Capability(t.formal))

PassedCall ==
    /\ VisitedOnce("statement")
    /\ errors = << >>
    /\ out.elem.expr.kind = "FUNCALL"
    /\ Arg(out.elem.expr, 0).type.base = "FUNCTION"

\* C8: in every template instantiation and every function call on which no
\* error is reported, each argument passed for a channel parameter has,
\* below the array layers, a capability not below that of the formal.
C8_ChannelCapability ==
    /\ (VisitedOnce("instance") /\ errors = << >>) =>
           \A k \in 1..Len(out.elem.mapping) :
               CapabilityKept(out.elem.mapping[k].type, out.elem.mapping[k].arg.type)
    /\ PassedCall =>
           LET parameters == Frame(Arg(out.elem.expr, 0).type.id)
           IN  \A k \in 1..Len(parameters) :
                   CapabilityKept(parameters[k].type, Arg(out.elem.expr, k).type)

\* An array of broadcast channels passed, by reference, for an array of
\* urgent broadcast channels: capability 1 for a formal of capability 0.
C8_Witness ==
    /\ VisitedOnce("instance")
    /\ errors = << >>
    /\ out.elem.mapping[1].type.base = "ARRAY"
    /\ out.elem.mapping[1].type.sub.pre = {"URGENT", "BROADCAST"}
    /\ out.elem.mapping[1].arg.type.sub.pre = {"BROADCAST"}

---------------------------------------------------------------------------
(* Declared ranges. *)

ErrorAt(positions) == \E k \in 1..Len(errors) : errors[k].pos \in positions

Evaluable(t) ==
    /\ t.lo.kind # "EMPTY"
    /\ evaluate(AsExpr(t.lo), GlobalValuation).ok
    /\ evaluate(AsExpr(t.hi), GlobalValuation).ok

Inverted(t) ==
    evaluate(AsExpr(t.lo), GlobalValuation).v > evaluate(AsExpr(t.hi), GlobalValuation).v

\* C9: after checkType on an Int or Scalar type whose two endpoints are
\* constant integers evaluable under the constant valuation, lo <= hi or an
\* error was reported for that type; an inverted integer size range of an
\* array is reported as well.
C9_RangeMonotonicity ==
    VisitedOnce("variable") =>
        /\ (task.type.base \in {"INT", "SCALAR"} /\ Evaluable(task.type)) =>
               (~Inverted(task.type) \/ ErrorAt({LoPos(<< >>), HiPos(<< >>)}))
        /\ (/\ task.type.base = "ARRAY"
            /\ typeIsInteger(task.type.size)
            /\ Evaluable(task.type.size)
            /\ Inverted(task.type.size)) =>
               ErrorAt({HiPos(SizePos(<< >>))})

\* int[2, 1] v: the inverted range is reported at its upper endpoint.
C9_Witness ==
    /\ VisitedOnce("variable")
    /\ task.type.base = "INT"
    /\ Evaluable(task.type)
    /\ Inverted(task.type)
    /\ errors = <<Err(HiPos(<< >>), "Invalid integer range")>>

---------------------------------------------------------------------------
(* Expressions that cannot be evaluated. *)

InRecordMessage == "Parameterised types not allowed in records"

ArrayDimensionMessage == "Arrays with parameterized size cannot have an initialiser"

RangeMismatchMessage == "Range of argument does not match range of formal parameter"

\* C10 as stated: an error is reported because an expression could not be
\* evaluated only for a type declared inside a record.
C10_OnlyInRecords ==
    \A k \in 1..Len(errors) :
        errors[k].uncomputed =>
            (errors[k].msg = InRecordMessage /\ StripArray(task.type).base = "RECORD")

\* C10 as amended: an error is reported because an expression could not be
\* evaluated only for a type declared inside a record, for an array with an
\* initialiser whose dimension cannot be computed, and for a reference
\* parameter whose range is written differently from that of its argument.
C10_OnlyKnownCases ==
    \A k \in 1..Len(errors) :
        errors[k].uncomputed =>
            \/ errors[k].msg = InRecordMessage /\ StripArray(task.type).base = "RECORD"
            \/ /\ errors[k].msg = ArrayDimensionMessage
               /\ task.op = "variable"
               /\ task.type.base = "ARRAY"
               /\ ~Evaluable(task.type.size)
            \/ /\ errors[k].msg = ArrayDimensionMessage
               /\ task.op = "parse"
               /\ task.decls[errors[k].pos[1] + 1].type.base = "ARRAY"
               /\ task.decls[errors[k].pos[1] + 1].expr.kind = "LIST"
               /\ ~evaluate(AsExpr(task.decls[errors[k].pos[1] + 1].type.size.hi),
                            [s \in out.visits[errors[k].pos[1] + 1].known |-> valuation[s]]).ok
            \/ /\ errors[k].msg = RangeMismatchMessage
               /\ task.op = "instance"
               /\ hasPrefix(task.mapping[errors[k].pos[1] + 1].type, "REFERENCE")

\* int v[0..p] = { ... } over a parameter p: the initialiser is rejected,
\* while the same declaration without an initialiser is accepted.
C10_Witness ==
    /\ VisitedOnce("variable")
    /\ task.type.base = "ARRAY"
    /\ task.type.size.hi = RIdent("p")
    /\ errors = <<Uncomputed(<< >>, ArrayDimensionMessage)>>

---------------------------------------------------------------------------
(* The entry points. *)

Parsed == pc = "done" /\ task.op = "parse"

\* The entry point reported success: true from parseXTA, 0 from the XML ones.
ReturnedSuccess ==
    IF task.entry \in {"parseXMLBuffer", "parseXMLFile"} THEN out.returned = 0
    ELSE out.returned

\* C11: every entry point that runs the analyzer returns success if and only
\* if no error was reported to the error sink by the time it returns, and
\* runs the type checker only when the builder phase reported no errors.
C11_SuccessIffNoErrors ==
    Parsed =>
        /\ ReturnedSuccess <=> errors = << >>
        /\ out.checked => task.built.errs = << >>

---------------------------------------------------------------------------
(* Failing initialisers. *)

\* The errors reported on the initialiser and not on the declared type.
InitialiserErrors ==
    {k \in 1..Len(errors) : \A j \in 1..Len(errors[k].pos) : errors[k].pos[j] >= 0}

\* The initialiser of the variable visited went into the check against the
\* declared type and failed it.
FailedInitialiser ==
    /\ VisitedOnce("variable")
    /\ task.expr.kind # "EMPTY"
    /\ ~out.returned
    /\ LET a == annotate(GlobalValuation, task.expr, << >>)
       IN  /\ a.ok
           /\ a.errs = << >>
           /\ ~dependsOn(a.e, persistentVariables)
           /\ isSideEffectFree(a.e)

\* C12: every failing initialiser check, for a global or template variable
\* or for a local variable of a block statement, is caught inside the
\* analyzer and turned into exactly one positioned error, after which the
\* visit continues: no initialiser exception escapes the visit and no single
\* failing initialiser yields several diagnostics.
C12_InitialiserErrorsCaught ==
    /\ pc # "thrown"
    /\ FailedInitialiser => Cardinality(InitialiserErrors) = 1

---------------------------------------------------------------------------
(* The calls of the decomposer. *)

\* The first two assertions of decompose hold on e and on every call the
\* decomposition of e makes.
RECURSIVE DecomposeAsserts(_)
DecomposeAsserts(e) ==
    /\ isInvariantWR(e)
    /\ isInvariant(e) \/ e.kind = "AND" \/ e.kind = "EQ"
    /\ (~isInvariant(e) /\ e.kind = "AND") =>
           DecomposeAsserts(Arg(e, 0)) /\ DecomposeAsserts(Arg(e, 1))

\* C13: on every call of RateDecomposer::decompose made from visitState the
\* assertions isInvariantWR(expr) and (isInvariant(expr) or kind is AND or
\* EQ) hold, for any non-empty invariant, well-typed or not.
C13_DecomposeAssertionsHold ==
    (/\ task.op = "state"
     /\ pc \in {"done", "aborted"}
     /\ task.invariant.kind # "EMPTY")
        => DecomposeAsserts(annotate(GlobalValuation, task.invariant, << >>).e)

---------------------------------------------------------------------------
(* The arguments of an instantiation. *)

\* Argument k of the instance as annotate leaves it.
AnnotatedArgument(k) == annotate(GlobalValuation, task.mapping[k].arg, <<k - 1>>)

\* The three cases in which an argument a fits the formal: a constant
\* reference and a computable argument, a reference and a unique reference,
\* a value parameter and a computable argument.
FitsFormal(formal, a) ==
    LET ref == hasPrefix(formal, "REFERENCE")
        constant == hasPrefix(formal, "CONSTANT")
        computable == ~dependsOn(a.e, persistentVariables)
    IN  /\ a.ok
        /\ isSideEffectFree(a.e)
        /\ \/ ref /\ constant /\ computable
           \/ ref /\ isUniqueReference(a.e)
           \/ ~ref /\ computable

\* The number of errors reported on argument k.
ErrorsOnArgument(k) ==
    Cardinality({j \in 1..Len(errors) : errors[j].pos # << >> /\ errors[j].pos[1] = k - 1})

\* C14 as stated: an argument reaches the compatibility check without error
\* if and only if it annotates successfully, is side-effect free and fits
\* the formal in one of the three cases; otherwise exactly one error is
\* reported for that argument, and the remaining arguments are still checked.
C14_ExactlyOneError ==
    VisitedOnce("instance") =>
        \A k \in 1..Len(task.mapping) :
            /\ (out.reached[k] /\ AnnotatedArgument(k).errs = << >>)
                   <=> FitsFormal(task.mapping[k].type, AnnotatedArgument(k))
            /\ ~FitsFormal(task.mapping[k].type, AnnotatedArgument(k))
                   => ErrorsOnArgument(k) = 1

\* C14 as amended: an argument reaches the compatibility check if and only
\* if it annotates successfully, is side-effect free and fits the formal in
\* one of the three cases; otherwise visitInstance reports exactly one error
\* for it if annotate returned true and none if it returned false, on top of
\* the errors annotate reported (at least one in all), and the remaining
\* arguments are still checked.
C14_ArgumentGate ==
    VisitedOnce("instance") =>
        \A k \in 1..Len(task.mapping) :
            /\ out.reached[k] <=> FitsFormal(task.mapping[k].type, AnnotatedArgument(k))
            /\ ~out.reached[k] =>
                   /\ ErrorsOnArgument(k) >= 1
                   /\ ErrorsOnArgument(k) =
                          Len(AnnotatedArgument(k).errs)
                          + (IF AnnotatedArgument(k).ok THEN 1 ELSE 0)

\* The first argument is rejected with one error and the second is checked
\* all the same, and rejected by the compatibility check.
C14_Witness ==
    /\ VisitedOnce("instance")
    /\ Len(task.mapping) = 2
    /\ ~out.reached[1]
    /\ ErrorsOnArgument(1) = 1
    /\ out.reached[2]
    /\ ErrorsOnArgument(2) = 1

---------------------------------------------------------------------------
(* The integer range rule of parameter compatibility. *)

\* The argument checked against one formal, of an instance with one formal
\* or of a call of a function of one parameter: the formal, the argument as
\* annotate leaves it, the valuation of the interpreter and whether the
\* compatibility check was reached.
CheckedArgument ==
    IF task.op = "instance"
    THEN [formal |-> task.mapping[1].type, a |-> AnnotatedArgument(1),
          val |-> addValuation(GlobalValuation, task.mapping),
          reached |-> Len(task.mapping) = 1 /\ out.reached[1]]
    ELSE [formal |-> Frame(Arg(task.expr, 0).type.id)[1].type,
          a |-> annotate(GlobalValuation, Arg(task.expr, 1), <<1>>),
          val |-> GlobalValuation,
          reached |-> TRUE]

\* The formal is an Int with a declared range and the actual an lhs of type
\* Int that reached the compatibility check without an error of annotate;
\* both ranges evaluate.
RangedArgument ==
    /\ \/ VisitedOnce("instance")
       \/ /\ VisitedOnce("statement")
          /\ task.expr.kind = "FUNCALL"
          /\ Len(task.expr.sub) = 2
          /\ Arg(task.expr, 0).sym \in {"f", "fr"}
    /\ CheckedArgument.reached
    /\ CheckedArgument.formal.base = "INT"
    /\ CheckedArgument.formal.lo.kind # "EMPTY"
    /\ CheckedArgument.a.errs = << >>
    /\ CheckedArgument.a.e.type.base = "INT"
    /\ isLHSValue(CheckedArgument.a.e)
    /\ evaluateRange(CheckedArgument.formal, CheckedArgument.val).ok
    /\ evaluateRange(CheckedArgument.a.e.type, CheckedArgument.val).ok

\* The rule of the kind of formal for the ranges P of the formal and Q of
\* the actual: equal for a reference, P contains Q for a constant reference,
\* P and Q intersect for a value parameter.
RangeRule(formal, P, Q) ==
    IF hasPrefix(formal, "REFERENCE") /\ ~hasPrefix(formal, "CONSTANT")
    THEN P.lower = Q.lower /\ P.upper = Q.upper
    ELSE IF hasPrefix(formal, "REFERENCE")
    THEN Q.lower > Q.upper \/ (P.lower <= Q.lower /\ Q.upper <= P.upper)
    ELSE \E v \in P.lower..P.upper : v \in Q.lower..Q.upper

\* C15 as stated: the argument is accepted iff range(Q) = range(P) when P
\* is a non-const reference, iff range(P) contains range(Q) when P is a
\* const reference, and iff the ranges intersect when P is a value parameter.
C15_RangeRuleByKind ==
    RangedArgument =>
        (errors = << >>
            <=> RangeRule(CheckedArgument.formal,
                    evaluateRange(CheckedArgument.formal, CheckedArgument.val),
                    evaluateRange(CheckedArgument.a.e.type, CheckedArgument.val)))

\* C15 as amended: the argument is accepted iff the rule of the kind of
\* formal holds and, for every kind, the two ranges intersect.
C15_RangeRuleAndIntersection ==
    RangedArgument =>
        LET P == evaluateRange(CheckedArgument.formal, CheckedArgument.val)
            Q == evaluateRange(CheckedArgument.a.e.type, CheckedArgument.val)
        IN  errors = << >>
                <=> /\ RangeRule(CheckedArgument.formal, P, Q)
                    /\ \E v \in P.lower..P.upper : v \in Q.lower..Q.upper

\* The formal const int[0,n] & with n = 1 and the actual i of type int[0,2]:
\* the range of the argument is outside of the range of the formal.
C15_Witness ==
    /\ RangedArgument
    /\ hasPrefix(CheckedArgument.formal, "REFERENCE")
    /\ hasPrefix(CheckedArgument.formal, "CONSTANT")
    /\ CheckedArgument.formal.hi = RIdent("n")
    /\ task.mapping[1].arg = Ident("i")
    /\ Len(errors) = 1
    /\ errors[1].msg = "Range of argument is outside of the range of the formal parameter"

---------------------------------------------------------------------------
(* Clock guards on the edges of urgent and broadcast channels. *)

\* The synchronisation of the edge annotates to a channel and is side
\* effect free.
ChannelSync ==
    /\ VisitedOnce("edge")
    /\ task.sync.kind # "EMPTY"
    /\ annotate(GlobalValuation, task.sync, <<1>>).ok
    /\ Arg(out.elem.sync, 0).type.base = "CHANNEL"
    /\ isSideEffectFree(out.elem.sync)

ClockGuardMessages ==
    {"Clock guards are not allowed on urgent edges",
     "Clock guards are not allowed on broadcast receivers"}

\* C16: on an edge whose synchronisation annotates to a channel and is side
\* effect free, a clock-guard error is reported at the synchronisation if
\* and only if the guard is non-empty and not a value and the channel is
\* urgent, or is broadcast with the direction receive (?).
C16_ClockGuardError ==
    ChannelSync =>
        ((\E k \in 1..Len(errors) :
              errors[k].pos = <<1>> /\ errors[k].msg \in ClockGuardMessages)
         <=> /\ task.guard.kind # "EMPTY"
             /\ ~isValue(out.elem.guard)
             /\ \/ hasPrefix(Arg(out.elem.sync, 0).type, "URGENT")
                \/ /\ hasPrefix(Arg(out.elem.sync, 0).type, "BROADCAST")
                   /\ task.sync.value = 0)

\* A broadcast send on a channel that is not urgent, with a clock guard and
\* no error, and (in another run) the same edge receiving, with the error.
C16_Witness ==
    /\ ChannelSync
    /\ task.guard = Node("LE", <<Ident("c"), Const(1)>>)
    /\ Arg(task.sync, 0) = Ident("bch")
    /\ task.assign = Const(1)
    /\ task.select = << >>
    /\ \/ task.sync.value = 1 /\ errors = << >>
       \/ /\ task.sync.value = 0
          /\ errors = <<Err(<<1>>, "Clock guards are not allowed on broadcast receivers")>>

---------------------------------------------------------------------------
(* Initialisers of integer variables. *)

\* A variable of type Int with an initialiser of value type that annotates,
\* is constant and side effect free.
IntegerInitialised ==
    /\ VisitedOnce("variable")
    /\ task.type.base = "INT"
    /\ task.expr.kind # "EMPTY"
    /\ annotate(GlobalValuation, task.expr, << >>).ok
    /\ isValue(AnnotatedInitialiser)
    /\ ~dependsOn(AnnotatedInitialiser, persistentVariables)
    /\ isSideEffectFree(AnnotatedInitialiser)

\* The errors the check of the initialiser added to those of annotate.
InitialiserCheckErrors ==
    {errors[k] : k \in InitialiserErrors}
        \ {annotate(GlobalValuation, task.expr, << >>).errs[k] :
              k \in 1..Len(annotate(GlobalValuation, task.expr, << >>).errs)}

\* C17: for a variable of Int type with an evaluable declared range [lo, hi]
\* and a side-effect-free constant initialiser that evaluates to n, the
\* initialiser is accepted iff lo <= n <= hi, and otherwise the error
\* "Initialiser is out of range" is reported at the initialiser; if the type
\* has no range, or the range or the value is not computable, a value-typed
\* initialiser is passed through unchanged without error.
C17_IntegerInitialiserRange ==
    IntegerInitialised =>
        LET n == evaluate(AnnotatedInitialiser, GlobalValuation)
            range == evaluateRange(task.type, GlobalValuation)
        IN  IF task.type.lo.kind # "EMPTY" /\ range.ok /\ n.ok
            THEN IF range.lower <= n.v /\ n.v <= range.upper
                 THEN out.returned /\ InitialiserCheckErrors = {}
                 ELSE /\ ~out.returned
                      /\ InitialiserCheckErrors = {Err(<< >>, "Initialiser is out of range")}
            ELSE /\ out.returned
                 /\ InitialiserCheckErrors = {}
                 /\ out.elem.expr = AnnotatedInitialiser

\* int[0,MaxVal] v = MaxVal + 1: the literal is out of range.
C17_Witness ==
    /\ IntegerInitialised
    /\ task.type = IntRange
    /\ task.expr = Const(MaxVal + 1)
    /\ errors = <<Err(<< >>, "Initialiser is out of range")>>

---------------------------------------------------------------------------
(* Scalar sets. *)

\* The annotated expression has an operand of base Scalar.
ScalarOperand == \E k \in 1..Len(out.e.sub) : out.e.sub[k].type.base = "SCALAR"

\* C18: scalar sets admit only equality within one scalar set: none of the
\* unary, arithmetic, bitwise, logical, order-comparison, increment/decrement
\* and compound-assignment operators annotates successfully with an operand
\* of base Scalar; == and != with an operand of base Scalar annotate
\* successfully, to Bool, only when both operand types are the same scalar
\* set type; x and y, of two scalar sets of equal size, are of different types.
C18_ScalarOnlyEquality ==
    (Annotated /\ ScalarOperand) =>
        /\ out.e.kind \in {"NOT", "UNARY_MINUS", "RATE", "ASSPLUS"} \cup ArithKinds
                \cup LogicKinds \cup CompoundKinds \cup IncDecKinds
              => ~out.ok
        /\ (out.e.kind \in {"EQ", "NEQ"} /\ out.ok)
              => /\ out.e.type = Prim("BOOL")
                 /\ out.e.sub[1].type.base = "SCALAR"
                 /\ out.e.sub[1].type = out.e.sub[2].type
        /\ (out.e.kind \in {"EQ", "NEQ"}
                /\ {out.e.sub[1].sym, out.e.sub[2].sym} = {"x", "y"})
              => /\ SymType("x").lo = SymType("y").lo
                 /\ SymType("x").hi = SymType("y").hi
                 /\ ~out.ok

---------------------------------------------------------------------------
(* The constant valuation while the declarations are visited. *)

\* The declarations were handed to the type checker.
Checked == Parsed /\ out.checked

\* The names of the constants declared before declaration k.
ConstantsBefore(k) ==
    {task.decls[j].name :
        j \in {i \in 1..(k - 1) : hasPrefix(task.decls[i].type, "CONSTANT")}}

\* The constants a type names in its range and in the range of its size.
RangeConstants(type) ==
    LET ends(t) == {t.lo.sym, t.hi.sym} \ {""}
    IN  ends(type) \cup (IF type.base = "ARRAY" THEN ends(type.size) ELSE {})

\* Declaration k refers, in its range, array size, index or initialiser, to
\* a constant that is not in the valuation when the declaration is visited.
RefersAhead(k) ==
    \E s \in ({"n"} \ out.visits[k].known) :
        \/ s \in RangeConstants(task.decls[k].type)
        \/ dependsOn(task.decls[k].expr, {s})

\* The errors of the checks that fold constants.
FoldMessages ==
    {"Invalid integer range", "Invalid array size", "Array index out of range",
     "Initialiser is out of range", "Excess elements in array initialiser",
     "Missing fields in initialiser", "Parameterised types not allowed in records",
     ArrayDimensionMessage}

VisitMessages(k) ==
    {out.visits[k].typeErrs[i].msg : i \in 1..Len(out.visits[k].typeErrs)}
        \cup {out.visits[k].errs[i].msg : i \in 1..Len(out.visits[k].errs)}

\* Declarations are visited in source order, and a constant is in the
\* valuation exactly from the end of the visit of its own declaration.
InSourceOrder ==
    /\ Len(out.visits) = Len(task.decls)
    /\ \A k \in 1..Len(task.decls) :
          /\ out.visits[k].name = task.decls[k].name
          /\ out.visits[k].known = ConstantsBefore(k)
    /\ DOMAIN valuation = ConstantsBefore(Len(task.decls) + 1)
    /\ pc # "thrown"

---------------------------------------------------------------------------
(* The order comparisons. *)

\* C20: the rules for > and >= are the mirror images of those for < and <=:
\* for operands L and R that are not both values, L > R (resp. L >= R) is
\* accepted exactly when R < L (resp. R <= L) is accepted, and is then
\* given the same type.
C20_MirrorComparison ==
    (/\ Annotated
     /\ task.expr.kind \in {"GT", "GE"}
     /\ ~(isValue(out.e.sub[1]) /\ isValue(out.e.sub[2]))) =>
        LET mirror(m) == /\ out.ok = m.ok
                         /\ out.ok => out.e.type = m.e.type
        IN  mirror(annotate(valuation,
                            Node(IF task.expr.kind = "GT" THEN "LT" ELSE "LE",
                                 <<task.expr.sub[2], task.expr.sub[1]>>), << >>))

---------------------------------------------------------------------------
(* Arrays as arguments of an inline if. *)

\* C21: areInlineIfCompatible on two array types returns true exactly when
\* their sizes match (integer size ranges with equal endpoint expressions,
\* or the identical scalar set) and their element types are inline-if
\* compatible; in particular b ? a : a, over one array declared with an
\* integer size and value elements, is accepted.
C21_ArraysOfEqualSize ==
    (/\ Annotated
     /\ task.expr.kind = "INLINEIF"
     /\ isValue(out.e.sub[1])
     /\ out.e.sub[2].type.base = "ARRAY"
     /\ out.e.sub[3].type.base = "ARRAY") =>
        LET thenArg == out.e.sub[2].type
            elseArg == out.e.sub[3].type
            sizesMatch ==
                \/ /\ typeIsInteger(thenArg.size) /\ typeIsInteger(elseArg.size)
                   /\ thenArg.size.lo = elseArg.size.lo
                   /\ thenArg.size.hi = elseArg.size.hi
                \/ /\ thenArg.size.base = "SCALAR"
                   /\ thenArg.size = elseArg.size
        IN  out.ok <=> (sizesMatch /\ areInlineIfCompatible(thenArg.sub, elseArg.sub))

---------------------------------------------------------------------------
(* Arrays as arguments. *)

\* An array formal of an instance with an array argument that reached the
\* compatibility check without an error of annotate.
ArrayArgument ==
    /\ VisitedOnce("instance")
    /\ Len(task.mapping) = 1
    /\ out.reached[1]
    /\ task.mapping[1].type.base = "ARRAY"
    /\ AnnotatedArgument(1).errs = << >>
    /\ AnnotatedArgument(1).e.type.base = "ARRAY"

\* The sizes of the formal and of the actual, layer by layer, under a
\* relation on integer sizes; scalar sets have to be identical.
RECURSIVE SizesRelated(_, _, _)
SizesRelated(paramType, argType, written) ==
    IF paramType.base # "ARRAY" THEN TRUE
    ELSE /\ argType.base = "ARRAY"
         /\ IF typeIsInteger(paramType.size) /\ typeIsInteger(argType.size)
            THEN IF written
                 THEN /\ paramType.size.lo = argType.size.lo
                      /\ paramType.size.hi = argType.size.hi
                 ELSE /\ evaluateRange(paramType.size, GlobalValuation).ok
                      /\ evaluateRange(argType.size, GlobalValuation).ok
                      /\ evaluateRange(paramType.size, GlobalValuation)
                             = evaluateRange(argType.size, GlobalValuation)
            ELSE /\ paramType.size.base = "SCALAR"
                 /\ paramType.size = argType.size
         /\ SizesRelated(paramType.sub, argType.sub, written)

\* Both ranges of an integer layer fold, to different bounds.
SizesDiffer(paramType, argType) ==
    /\ typeIsInteger(paramType.size) /\ typeIsInteger(argType.size)
    /\ evaluateRange(paramType.size, GlobalValuation).ok
    /\ evaluateRange(argType.size, GlobalValuation).ok
    /\ evaluateRange(paramType.size, GlobalValuation)
           # evaluateRange(argType.size, GlobalValuation)

\* The elements are of the same plain type: int, bool or clock.
PlainElements(paramType, argType) ==
    /\ StripArray(paramType).base = StripArray(argType).base
    /\ StripArray(paramType).base \in {"INT", "BOOL", "CLOCK"}
    /\ StripArray(paramType).lo.kind = "EMPTY"

\* C22 as stated: an array argument is accepted for an array formal
\* whenever, at every layer, the integer index ranges constant-fold to equal
\* bounds under the valuation, even when written with different
\* expressions, or the scalar-set index types are identical, and the element
\* types are compatible; it is rejected when the folded bounds differ.
C22_FoldedSizes ==
    ArrayArgument =>
        /\ (/\ SizesRelated(task.mapping[1].type, AnnotatedArgument(1).e.type, FALSE)
            /\ PlainElements(task.mapping[1].type, AnnotatedArgument(1).e.type))
               => errors = << >>
        /\ SizesDiffer(task.mapping[1].type, AnnotatedArgument(1).e.type)
               => errors # << >>

\* C22 as amended: an array argument is accepted for an array formal
\* whenever, at every layer, the integer index ranges are written with equal
\* endpoint expressions or the scalar-set index types are identical, and the
\* element types are compatible; otherwise it is rejected as of an
\* incompatible type, even if the bounds constant-fold to equal values.
C22_WrittenSizes ==
    ArrayArgument =>
        /\ (/\ SizesRelated(task.mapping[1].type, AnnotatedArgument(1).e.type, TRUE)
            /\ PlainElements(task.mapping[1].type, AnnotatedArgument(1).e.type))
               => errors = << >>
        /\ ~SizesRelated(task.mapping[1].type, AnnotatedArgument(1).e.type, TRUE)
               => /\ Len(errors) >= 1
                  /\ \A k \in 1..Len(errors) : errors[k] = Err(<<0>>, "Incompatible type")

\* int an[0..n] with n = 1 given for a formal int[0..1]&: equal bounds,
\* written differently, rejected.
C22_Witness ==
    /\ ArrayArgument
    /\ task.mapping[1].arg = Ident("an")
    /\ task.mapping[1].type.size = createInteger(RConst(0), RConst(1))
    /\ SizesRelated(task.mapping[1].type, AnnotatedArgument(1).e.type, FALSE)
    /\ errors # << >>

---------------------------------------------------------------------------
(* Left-hand-side values. *)

\* C23 as stated: isLHSValue holds for every assignment, compound
\* assignment and increment/decrement node, prefix or postfix, whose operand
\* is an lhs; it holds for identifiers of non-constant symbols and for
\* dot/array projections of an lhs, and it is false for function calls.
C23_UpdatesAreLhs ==
    Annotated =>
        \A q \in Paths(out.e) :
            LET node == NodeAt(out.e, q)
            IN  /\ (node.kind \in AssignKinds \cup IncDecKinds /\ isLHSValue(Arg(node, 0)))
                       => isLHSValue(node)
                /\ (node.kind = "IDENTIFIER" /\ ~hasPrefix(SymType(node.sym), "CONSTANT"))
                       => isLHSValue(node)
                /\ (node.kind \in {"DOT", "ARRAY"} /\ isLHSValue(Arg(node, 0)))
                       => isLHSValue(node)
                /\ node.kind = "FUNCALL" => ~isLHSValue(node)

\* C23 as amended: isLHSValue holds for every assignment, compound
\* assignment and prefix increment/decrement node whose operand is an lhs,
\* for identifiers of non-constant symbols and for dot/array projections of
\* an lhs; it is false for postfix increment/decrement nodes and for
\* function calls.
C23_PrefixUpdatesAreLhs ==
    Annotated =>
        \A q \in Paths(out.e) :
            LET node == NodeAt(out.e, q)
            IN  /\ (/\ node.kind \in AssignKinds \cup {"PREINCREMENT", "PREDECREMENT"}
                    /\ isLHSValue(Arg(node, 0)))
                       => isLHSValue(node)
                /\ node.kind \in {"POSTINCREMENT", "POSTDECREMENT"} => ~isLHSValue(node)
                /\ (node.kind = "IDENTIFIER" /\ ~hasPrefix(SymType(node.sym), "CONSTANT"))
                       => isLHSValue(node)
                /\ (node.kind \in {"DOT", "ARRAY"} /\ isLHSValue(Arg(node, 0)))
                       => isLHSValue(node)
                /\ node.kind = "FUNCALL" => ~isLHSValue(node)
                /\ (/\ node.kind = "ASSIGN"
                    /\ Arg(node, 0).kind \in IncDecKinds
                    /\ Arg(node, 0).type.base = "INT")
                       => (out.ok <=> Arg(node, 0).kind \in {"PREINCREMENT", "PREDECREMENT"})

\* (i++) = 1: the postfix increment of the lhs i is no lhs.
C23_Witness ==
    /\ Annotated
    /\ task.expr = Node("ASSIGN", <<Node("POSTINCREMENT", <<Ident("i")>>), Const(1)>>)
    /\ ~out.ok
    /\ errors = <<Err(<<0>>, "Left hand side value expected")>>

---------------------------------------------------------------------------
(* Compound assignments. *)

\* A compound assignment other than += whose operands are values, the left
\* one an lhs.
CompoundOnValues ==
    /\ Annotated
    /\ out.e.kind \in CompoundKinds
    /\ isValue(out.e.sub[1])
    /\ isValue(out.e.sub[2])
    /\ isLHSValue(out.e.sub[1])

\* C24 as stated: a compound assignment other than += whose operands are
\* both values and whose left operand is an lhs is annotated with type Int,
\* whatever the type of the left operand.
C24_CompoundIsInt ==
    CompoundOnValues => (out.ok /\ out.e.type.base = "INT")

\* C24 as amended: a compound assignment other than += whose operands are
\* both values and whose left operand is an lhs is annotated with the type
\* of its left operand: Int with its declared range, or Bool.
C24_CompoundIsLeftType ==
    CompoundOnValues =>
        /\ out.ok
        /\ out.e.type = out.e.sub[1].type

\* b -= 1 with a bool b is annotated with type Bool.
C24_Witness ==
    /\ CompoundOnValues
    /\ out.e.kind = "ASSMINUS"
    /\ out.e.sub[1].sym = "b"
    /\ out.e.sub[2] = Const(1)
    /\ out.e.type = Prim("BOOL")

---------------------------------------------------------------------------
(* What visitState leaves on the location. *)

\* C25: after visitState on a location with a valid invariant, the
\* invariant of the location is the residual pure invariant, every pair
\* (x, r) collected by the decomposition remains exposed on the location,
\* whose only fields written are the invariant and the cost rate, and the
\* cost rate is the rate expression of the first pair in left-to-right order
\* of the original conjunction.
C25_PairsExposed ==
    AcceptedInvariant =>
        LET original == ConjunctsOf(annotate(GlobalValuation, task.invariant, << >>).e)
            equalities == SelectSeq(original, IsRateEquality)
        IN  /\ ConjunctsOf(out.elem.invariant) = SelectSeq(original, IsNoRateEquality)
            /\ equalities # << >> =>
                   \E x \in {Ident("cost"), Ident("c")} :
                       IsRateOf(equalities[1], x, out.elem.costrate)
            /\ equalities = << >> => out.elem.costrate = task.costrate
            /\ \A k \in 1..Len(out.rate) : out.rate[k][2] = out.elem.costrate

---------------------------------------------------------------------------
(* Invariants with rates. *)

\* The node is a conjunction of two invariants with rates, or an equality
\* of the rate of a cost and an integer.
ConjunctionOrRateEquality(node) ==
    \/ /\ node.kind = "AND"
       /\ isInvariantWR(Arg(node, 0))
       /\ isInvariantWR(Arg(node, 1))
    \/ /\ node.kind = "EQ"
       /\ \E k \in 0..1 :
             /\ Arg(node, k).kind = "RATE"
             /\ Arg(node, k).type = Prim("RATE")
             /\ isCost(Arg(Arg(node, k), 0))
             /\ isInteger(Arg(node, 1 - k))

\* C26: every expression that annotate types as InvariantWR is an AND node
\* both of whose operands are invariant-or-rate, or an EQ node with exactly
\* one operand of type Rate and the other an Int; no other operator types
\* its node with an operand of type InvariantWR, and the decomposition of
\* an invariant that passed the checks of the location fails no assertion.
C26_InvariantWRShapes ==
    (task.op = "state" /\ pc \in {"done", "aborted"} /\ out.prev = task) =>
        LET shaped(e) ==
                \A q \in Paths(e) :
                    /\ NodeAt(e, q).type = Prim("INVARIANT_WR")
                           => ConjunctionOrRateEquality(NodeAt(e, q))
                    /\ (/\ NodeAt(e, q).kind # "AND"
                        /\ \E k \in 1..Len(NodeAt(e, q).sub) :
                              NodeAt(e, q).sub[k].type = Prim("INVARIANT_WR"))
                           => NodeAt(e, q).type = UNKNOWN
        IN  /\ shaped(annotate(GlobalValuation, task.invariant, << >>).e)
            /\ errors = << >> => pc = "done"

---------------------------------------------------------------------------
(* Unique references. *)

\* C27: for every annotated expression, a unique reference is an lhs value;
\* an array projection is a unique reference only if the array is one and
\* the index depends on no persistent variable; an inline-if is never a
\* unique reference.
C27_UniqueIsLhs ==
    Annotated =>
        \A q \in Paths(out.e) :
            LET strengthens(node) ==
                    /\ isUniqueReference(node) => isLHSValue(node)
                    /\ (node.kind = "ARRAY" /\ isUniqueReference(node)) =>
                           /\ isUniqueReference(Arg(node, 0))
                           /\ ~dependsOn(Arg(node, 1), persistentVariables)
                    /\ node.kind = "INLINEIF" => ~isUniqueReference(node)
            IN  strengthens(NodeAt(out.e, q))

\* An accepted projection of an array that is a unique reference.
C27_Witness ==
    /\ Annotated
    /\ out.ok
    /\ out.e.kind = "ARRAY"
    /\ isUniqueReference(out.e)
    /\ isLHSValue(out.e)

---------------------------------------------------------------------------
(* Array projections. *)

\* C28: a projection a[i] annotates without error only if a is an array and
\* i is a value when the array is indexed by integers, or has the scalar
\* set of the array's size as its type when the array is indexed by a
\* scalar set; an index of any other type is rejected with an error.
C28_IndexOfTheSizeType ==
    (Annotated /\ task.expr.kind = "ARRAY" /\ out.ok /\ errors = << >>) =>
        LET indexes(array, index) ==
                /\ array.base = "ARRAY"
                /\ \/ typeIsInteger(array.size) /\ typeIsValue(index)
                   \/ array.size.base = "SCALAR" /\ index = array.size
        IN  indexes(Arg(out.e, 0).type, Arg(out.e, 1).type)

---------------------------------------------------------------------------
(* Initialisers left in place. *)

\* C29: the initialiser of a variable is replaced by its normalised form
\* only when its check reported no error: if the check of the initialiser
\* reports any error, the initialiser is left as it was before the check
\* (with the types annotate gave to its nodes).
C29_ErrorLeavesInitialiser ==
    (VisitedOnce("variable") /\ task.expr.kind # "EMPTY" /\ InitialiserErrors # {}) =>
        /\ ~out.returned
        /\ out.elem.expr \in {task.expr, AnnotatedInitialiser}

---------------------------------------------------------------------------
(* The keywords of the language (keywords.cc). A string is the sequence of
   its characters; a syntax mask is the set of its bits. *)

\* The bits of a syntax mask.
Syntaxes == {"SYNTAX_OLD", "SYNTAX_NEW", "SYNTAX_PROPERTY"}

\* Lines 47-75: the table of associated values; 55 for every character
\* that starts no keyword and is the second character of none.
asso_values(c) ==
    CASE c \in {"d", "m", "o", "p", "q", "s", "t"} -> 0
      [] c \in {"f", "g", "h", "r"} -> 5
      [] c \in {"a", "i"} -> 10
      [] c \in {"b", "w", "y"} -> 15
      [] c \in {"e", "n"} -> 20
      [] c = "l" -> 30
      [] c \in {"c", "u"} -> 35
      [] OTHER -> 55

\* A hash of the length and the first character only.
hashOfFirst(str, len) == len + asso_values(str[1])

\* Line 76.
hash(str, len) == len + asso_values(str[2]) + asso_values(str[1])

TOTAL_KEYWORDS == 38
MIN_WORD_LENGTH == 2
MAX_WORD_LENGTH == 13
MIN_HASH_VALUE == 2
MAX_HASH_VALUE == 54

\* Lines 91-178: the word list, slot k of the source at index k + 1.
wordlist ==
    LET Keyword(name, token, syntax) == [name |-> name, token |-> token, syntax |-> syntax]
        Empty == Keyword(<< >>, "", {})
    IN  <<
       Empty,
       Empty,
       Keyword(<<"d", "o">>, "T_DO", {"SYNTAX_NEW"}),
       Empty,
       Empty,
       Keyword(<<"s", "t", "a", "t", "e">>, "T_STATE", {"SYNTAX_OLD", "SYNTAX_NEW"}),
       Keyword(<<"s", "t", "r", "u", "c", "t">>, "T_STRUCT", {"SYNTAX_NEW"}),
       Keyword(<<"o", "r">>, "T_KW_OR", {"SYNTAX_OLD", "SYNTAX_NEW", "SYNTAX_PROPERTY"}),
       Keyword(<<"f", "o", "r">>, "T_FOR", {"SYNTAX_NEW"}),
       Keyword(<<"t", "r", "u", "e">>, "T_TRUE", {"SYNTAX_OLD", "SYNTAX_NEW", "SYNTAX_PROPERTY"}),
       Keyword(<<"t", "r", "a", "n", "s">>, "T_TRANS", {"SYNTAX_OLD", "SYNTAX_NEW"}),
       Keyword(<<"f", "o", "r", "a", "l", "l">>, "T_FORALL", {"SYNTAX_NEW", "SYNTAX_PROPERTY"}),
       Keyword(<<"p", "r", "o", "c", "e", "s", "s">>, "T_PROCESS", {"SYNTAX_OLD", "SYNTAX_NEW"}),
       Keyword(<<"p", "r", "o", "g", "r", "e", "s", "s">>, "T_PROGRESS", {"SYNTAX_NEW"}),
       Empty,
       Keyword(<<"i", "m", "p", "l", "y">>, "T_KW_IMPLY", {"SYNTAX_OLD", "SYNTAX_NEW", "SYNTAX_PROPERTY"}),
       Keyword(<<"a", "s", "s", "i", "g", "n">>, "T_ASSIGN", {"SYNTAX_OLD", "SYNTAX_NEW"}),
       Keyword(<<"i", "f">>, "T_IF", {"SYNTAX_NEW"}),
       Keyword(<<"p", "r", "o", "c", "_", "p", "r", "i", "o", "r", "i", "t", "y">>, "T_PROC_PRIORITY", {"SYNTAX_OLD", "SYNTAX_NEW"}),
       Keyword(<<"s", "y", "n", "c">>, "T_SYNC", {"SYNTAX_OLD", "SYNTAX_NEW"}),
       Keyword(<<"f", "a", "l", "s", "e">>, "T_FALSE", {"SYNTAX_OLD", "SYNTAX_NEW", "SYNTAX_PROPERTY"}),
       Keyword(<<"s", "y", "s", "t", "e", "m">>, "T_SYSTEM", {"SYNTAX_OLD", "SYNTAX_NEW"}),
       Keyword(<<"t", "y", "p", "e", "d", "e", "f">>, "T_TYPEDEF", {"SYNTAX_NEW"}),
       Keyword(<<"n", "o", "t">>, "T_KW_NOT", {"SYNTAX_OLD", "SYNTAX_NEW", "SYNTAX_PROPERTY"}),
       Keyword(<<"m", "e", "t", "a">>, "T_META", {"SYNTAX_NEW"}),
       Keyword(<<"w", "h", "i", "l", "e">>, "T_WHILE", {"SYNTAX_NEW"}),
       Keyword(<<"s", "e", "l", "e", "c", "t">>, "T_SELECT", {"SYNTAX_NEW"}),
       Keyword(<<"a", "f", "t", "e", "r", "_", "u", "p", "d", "a", "t", "e">>, "T_AFTER", {"SYNTAX_NEW"}),
       Keyword(<<"d", "e", "a", "d", "l", "o", "c", "k">>, "T_DEADLOCK", {"SYNTAX_PROPERTY"}),
       Keyword(<<"b", "r", "o", "a", "d", "c", "a", "s", "t">>, "T_BROADCAST", {"SYNTAX_OLD", "SYNTAX_NEW"}),
       Empty,
       Keyword(<<"r", "e", "t", "u", "r", "n">>, "T_RETURN", {"SYNTAX_NEW"}),
       Keyword(<<"w", "i", "n", "n", "i", "n", "g">>, "T_WINNING", {"SYNTAX_NEW"}),
       Keyword(<<"a", "n", "d">>, "T_KW_AND", {"SYNTAX_OLD", "SYNTAX_NEW", "SYNTAX_PROPERTY"}),
       Keyword(<<"i", "n", "i", "t">>, "T_INIT", {"SYNTAX_OLD", "SYNTAX_NEW"}),
       Empty,
       Keyword(<<"l", "o", "s", "i", "n", "g">>, "T_LOSING", {"SYNTAX_NEW"}),
       Empty,
       Empty,
       Keyword(<<"q", "u", "i", "t">>, "T_QUIT", {"SYNTAX_PROPERTY"}),
       Keyword(<<"c", "o", "n", "s", "t">>, "T_CONST", {"SYNTAX_OLD", "SYNTAX_NEW"}),
       Keyword(<<"c", "o", "m", "m", "i", "t">>, "T_COMMIT", {"SYNTAX_OLD", "SYNTAX_NEW"}),
       Empty,
       Empty,
       Empty,
       Keyword(<<"g", "u", "a", "r", "d">>, "T_GUARD", {"SYNTAX_OLD", "SYNTAX_NEW"}),
       Keyword(<<"u", "r", "g", "e", "n", "t">>, "T_URGENT", {"SYNTAX_OLD", "SYNTAX_NEW"}),
       Empty,
       Keyword(<<"b", "e", "f", "o", "r", "e", "_", "u", "p", "d", "a", "t", "e">>, "T_BEFORE", {"SYNTAX_NEW"}),
       Empty,
       Empty,
       Empty,
       Empty,
       Keyword(<<"c", "h", "a", "n", "_", "p", "r", "i", "o", "r", "i", "t", "y">>, "T_CHAN_PRIORITY", {"SYNTAX_OLD", "SYNTAX_NEW"}),
       Keyword(<<"e", "l", "s", "e">>, "T_ELSE", {"SYNTAX_NEW"})
        >>

\* The null pointer in_word_set returns for a string that is no keyword.
NULL == -1

\* The character at offset j of a string, the terminator behind its end.
CharAt(s, j) == IF j < Len(s) THEN s[j + 1] ELSE ""

\* !strncmp(s1 + from, s2 + from, n): the strings agree on the n characters
\* from the offset, or up to a terminator they both have there.
RECURSIVE strncmpEqual(_, _, _, _)
strncmpEqual(s1, s2, from, n) ==
    IF n = 0 THEN TRUE
    ELSE IF CharAt(s1, from) # CharAt(s2, from) THEN FALSE
    ELSE IF CharAt(s1, from) = "" THEN TRUE
    ELSE strncmpEqual(s1, s2, from + 1, n - 1)

\* Lines 180-192: the slot of the keyword str, or NULL.
in_word_set(str, len) ==
    IF len <= MAX_WORD_LENGTH /\ len >= MIN_WORD_LENGTH
    THEN LET key == hash(str, len)
             matches(s) ==
                 /\ CharAt(str, 0) = CharAt(s, 0)
                 /\ strncmpEqual(str, s, 1, len - 1)
                 /\ CharAt(s, len) = ""
         IN  IF key <= MAX_HASH_VALUE /\ key >= 0
             THEN IF matches(wordlist[key + 1].name) THEN key ELSE NULL
             ELSE NULL
    ELSE NULL

\* Lines 197-201.
isKeyword(id, syntax) ==
    LET masked(keyword) ==
            keyword # NULL /\ wordlist[keyword + 1].syntax \cap syntax # {}
    IN  masked(in_word_set(id, Len(id)))

\* The identifiers looked up: the keywords, their proper prefixes, their
\* extensions by one character, the keywords with the first two characters
\* swapped or the last one replaced, and every string of at most MaxLen
\* characters over a small alphabet; under every syntax mask.
KeywordTasks ==
    LET Words == {wordlist[k].name : k \in 1..Len(wordlist)} \ {<< >>}
        Prefixes == UNION {{SubSeq(w, 1, n) : n \in 0..Len(w)} : w \in Words}
        Extensions == {w \o <<c>> : w \in Words, c \in {"s", "_"}}
        Swapped == {<<w[2], w[1]>> \o SubSeq(w, 3, Len(w)) : w \in Words}
        Replaced == {SubSeq(w, 1, Len(w) - 1) \o <<"x">> : w \in Words}
        Short == UNION {[1..n -> {"d", "o", "r", "f", "Z"}] : n \in 0..MaxLen}
    IN  {[op |-> "keyword", id |-> id, syntax |-> syntax] :
            id \in Words \cup Prefixes \cup Extensions \cup Swapped \cup Replaced \cup Short,
            syntax \in SUBSET Syntaxes}

InitKeywords ==
    /\ symbols = GlobalSymbols
    /\ task \in KeywordTasks
    /\ pc = "ready"
    /\ out = NoOutput
    /\ errors = <<>>
    /\ valuation = GlobalValuation

\* A call of isKeyword(id, syntax).
isKeywordCall ==
    /\ pc = "ready"
    /\ task.op = "keyword"
    /\ out' = [op |-> "keyword", result |-> isKeyword(task.id, task.syntax)]
    /\ pc' = "done"
    /\ UNCHANGED <<task, errors, valuation, symbols>>

NextKeywords == isKeywordCall

SpecKeywords == InitKeywords /\ [][NextKeywords]_vars

\* The slots of the word list that hold a keyword.
KeywordSlots == {k \in 0..(Len(wordlist) - 1) : wordlist[k + 1].name # << >>}

\* C30: isKeyword(id, syntax) is true iff id is one of the 38 keywords of the
\* word list and the mask of that keyword shares a bit with syntax: each
\* keyword hashes to the index of its own slot, which is in 2..54, no two
\* keywords share a slot, and every other string is rejected, whatever its
\* length.
C30_KeywordsExactly ==
    /\ Cardinality(KeywordSlots) = TOTAL_KEYWORDS
    /\ Cardinality({wordlist[k + 1].name : k \in KeywordSlots}) = TOTAL_KEYWORDS
    /\ (pc = "done" /\ task.op = "keyword") =>
           LET slots == {k \in KeywordSlots : wordlist[k + 1].name = task.id}
           IN  /\ out.result = (\E k \in slots : wordlist[k + 1].syntax \cap task.syntax # {})
               /\ \A k \in slots :
                     /\ hash(task.id, Len(task.id)) = k
                     /\ k \in MIN_HASH_VALUE..MAX_HASH_VALUE
               /\ slots = {} => in_word_set(task.id, Len(task.id)) = NULL

\* deadlock is a keyword of the property syntax.
C30_Witness ==
    /\ pc = "done"
    /\ task.op = "keyword"
    /\ task.id = <<"d", "e", "a", "d", "l", "o", "c", "k">>
    /\ task.syntax = {"SYNTAX_PROPERTY"}
    /\ out.result

=============================================================================
